---- MODULE Spec2Model ----
(***************************************************************************)
(* SLM-Controller: the message dispatcher of src/message_loop.rs together  *)
(* with the array cache, the file resolution and the pattern computation   *)
(* it drives.                                                              *)
(*                                                                         *)
(* Representation.                                                         *)
(*  - A phase is an integer number of units of 2*pi/65280 (65280 = 256 *   *)
(*    255), so that both the load factor 2*pi/256 and the save factor      *)
(*    255/(2*pi) are exact: a sample s loads as s * 255 units, a phase e   *)
(*    saves as floor((e mod 65280) / 256).                                 *)
(*  - An array is [shape |-> <<rows, cols>>, data |-> row-major sequence]. *)
(*  - A string that the code takes apart (a file name, an extension) is a  *)
(*    sequence of tokens, "." and "_" being tokens of their own; the empty *)
(*    string is <<>> and + is \o.                                          *)
(*  - A path is [dir |-> sequence of directory names, file |-> tokens].    *)
(*  - A Result is carried in the field res of a context record: "ok", an   *)
(*    error kind "err_...", or "panic" for a Rust panic (which unwinds     *)
(*    main and ends the process).                                          *)
(***************************************************************************)
EXTENDS Integers, Sequences, FiniteSets, TLC

\* ------------------------------------------------------------------------
\* Bounds of the model
\* ------------------------------------------------------------------------
\* inbound messages handled in one run of the loop
MaxMsgs == 2
\* lasers in one Lasers(Set) message
MaxLasers == 2

\* ------------------------------------------------------------------------
\* Arrays (ndarray::Array2)
\* ------------------------------------------------------------------------
\* 2*pi in phase units
TWO_PI == 65280

Size(shape) == shape[1] * shape[2]

\* the indices of an array of shape dim
Ids(dim) == (0..(dim[1] - 1)) \X (0..(dim[2] - 1))

\* Array::from_shape_fn: f is a function on Ids(dim)
from_shape_fn(dim, f) ==
    [shape |-> dim,
     data  |-> [k \in 1..Size(dim) |-> f[<<(k - 1) \div dim[2], (k - 1) % dim[2]>>]]]

InBounds(a, i, j) == i >= 0 /\ i < a.shape[1] /\ j >= 0 /\ j < a.shape[2]

At(a, i, j) == a.data[i * a.shape[2] + j + 1]

\* ndarray broadcasting of the right operand into the shape of the left one
Broadcastable(from, to) ==
    \A ax \in 1..2 : from[ax] = to[ax] \/ from[ax] = 1

BroadcastAt(a, i, j) ==
    At(a, IF a.shape[1] = 1 THEN 0 ELSE i, IF a.shape[2] = 1 THEN 0 ELSE j)

\* lhs + &rhs, defined when rhs broadcasts into lhs (the caller checks)
ArrayAdd(lhs, rhs) ==
    from_shape_fn(lhs.shape,
                  [id \in Ids(lhs.shape) |->
                      At(lhs, id[1], id[2]) + BroadcastAt(rhs, id[1], id[2])])

\* ------------------------------------------------------------------------
\* Strings and paths
\* ------------------------------------------------------------------------
\* replace without effect
replace_nothing(name, pat) == name

\* str::replace(pat, "") on a token string
replace(name, pat) == SelectSeq(name, LAMBDA t : t # pat)

Path(dir, file) == [dir |-> dir, file |-> file]

\* PathBuf::join / push of a relative path
join(dir, rel) == Path(dir \o rel.dir, rel.file)

\* Path::set_file_name
set_file_name(path, name) == [path EXCEPT !.file = name]

\* the name up to its last "." (Path::file_stem); a name without a dot, or
\* with its only dot in front, is its own stem
file_stem(name) ==
    LET dots == {k \in 2..Len(name) : name[k] = "."}
    IN  IF dots = {} THEN name
        ELSE SubSeq(name, 1, (CHOOSE k \in dots : \A l \in dots : l <= k) - 1)

\* PathBuf::set_extension: the stem, and for a non-empty new extension a
\* dot and the extension; ext is a token string
set_extension(path, ext) ==
    [path EXCEPT !.file = IF Len(ext) = 0 THEN file_stem(@)
                          ELSE file_stem(@) \o <<".">> \o ext]

\* The working directory; a relative path names the file below it.
Cwd == <<"cwd">>

\* the file a path names (absolute paths below the working directory and
\* relative paths name the same file)
Canon(path) ==
    IF Len(path.dir) >= 1 /\ path.dir[1] = "cwd"
    THEN [path EXCEPT !.dir = Tail(@)]
    ELSE path

\* Path::is_file on the file system fs (a function from canonical paths to
\* file contents)
is_file(fs, path) == Canon(path) \in DOMAIN fs

\* ------------------------------------------------------------------------
\* Image files
\* ------------------------------------------------------------------------
None == <<>>
Some(v) == <<v>>

\* the content of a file: an 8-bit gray image or bytes that are no image
Image(shape, data) == [valid |-> TRUE, shape |-> shape, data |-> data]
NoImage == [valid |-> FALSE, shape |-> <<0, 0>>, data |-> <<>>]

\* read_image_from_file: [res, ret]; a sample s becomes s * (2*pi / 256);
\* with a target shape the file is indexed over that shape, 0 outside it
read_image_from_file(fs, path, dim) ==
    IF ~is_file(fs, path) \/ ~fs[Canon(path)].valid
    THEN [res |-> "err_image", ret |-> None]
    ELSE LET array == fs[Canon(path)]
             normalize(e) == e * (TWO_PI \div 256)
         IN  IF dim # None
             THEN [res |-> "ok",
                   ret |-> from_shape_fn(dim[1],
                               [id \in Ids(dim[1]) |->
                                   IF InBounds(array, id[1], id[2])
                                   THEN normalize(At(array, id[1], id[2])) ELSE 0])]
             ELSE [res |-> "ok",
                   ret |-> [shape |-> array.shape,
                            data  |-> [k \in DOMAIN array.data |->
                                          normalize(array.data[k])]]]

\* the u8 raster save_image hands to save_gray_image
quantize_for_save(array) ==
    [array EXCEPT !.data = [k \in DOMAIN array.data |->
                               ((array.data[k] % TWO_PI) * 255) \div TWO_PI]]

\* save_image: [res, fs]; io_ok says whether the file could be created,
\* write_ok whether the image could then be written to it: a failing write
\* leaves the created file without an image
save_image(fs, path, array, io_ok, write_ok) ==
    IF ~io_ok
    THEN [res |-> "err_io", fs |-> fs]
    ELSE LET q == quantize_for_save(array)
             p == Canon(path)
         IN  [res |-> IF write_ok THEN "ok" ELSE "err_io",
              fs  |-> [f \in DOMAIN fs \cup {p} |->
                          IF f # p THEN fs[f]
                          ELSE IF write_ok THEN Image(q.shape, q.data)
                          ELSE NoImage]]

\* base64_to_ndarray: [res, ret].  s is [valid, values, tail]: whether s is
\* base64, the f32 values of its whole 4-byte chunks, and the number of
\* bytes left over, which chunks_exact drops.
base64_to_ndarray(s, dim) ==
    IF ~s.valid THEN [res |-> "err_base64", ret |-> None]
    ELSE IF Len(s.values) # Size(dim) THEN [res |-> "err_shape", ret |-> None]
    ELSE [res |-> "ok", ret |-> [shape |-> dim, data |-> s.values]]

\* save_image_data: [res, fs].  b64_data is [header, rest]: the text before
\* the first ";base64," as its "/"-separated segments, and the parts after
\* it, each [valid, content].  The second header segment is the new
\* extension of the path.  The file is created (io_ok), then the body is
\* decoded, then the decoded bytes are written (write_ok).
save_image_data(fs, path0, b64_data, io_ok, write_ok) ==
    IF Len(b64_data.rest) = 0 THEN [res |-> "err_no_body", fs |-> fs]
    ELSE IF Len(b64_data.header) < 2 THEN [res |-> "err_no_extension", fs |-> fs]
    ELSE IF ~io_ok THEN [res |-> "err_io", fs |-> fs]
    ELSE LET body == b64_data.rest[1]
             extension == IF b64_data.header[2] = "" THEN <<>>
                          ELSE <<b64_data.header[2]>>
             path == Canon(set_extension(path0, extension))
             created == [f \in DOMAIN fs \cup {path} |->
                            IF f = path THEN NoImage ELSE fs[f]]
         IN  IF ~body.valid
             THEN [res |-> "err_base64", fs |-> created]
             ELSE IF ~write_ok
             THEN [res |-> "err_io", fs |-> created]
             ELSE [res |-> "ok",
                   fs  |-> [created EXCEPT ![path] = body.content]]

\* std::fs::remove_file: [res, fs]
remove_file(fs, path) ==
    IF ~is_file(fs, path) THEN [res |-> "err_io", fs |-> fs]
    ELSE [res |-> "ok", fs |-> [f \in DOMAIN fs \ {Canon(path)} |-> fs[f]]]

\* ------------------------------------------------------------------------
\* Context: the dispatcher's state threaded through one handler
\* ------------------------------------------------------------------------
\* A context c is a record
\*   config, wavelength, fresnel, pattern_params, cache   (Context, State)
\*   fs       the file system
\*   client   the calls this handler makes on the MQTT client, in order:
\*            [call |-> "subscribe", topic] and
\*            [call |-> "publish", topic, message]
\*   pixels   what the presentation sink shows
\*   reboot   whether an OS reboot has been requested
\*   env      what the surroundings do during this handler:
\*            pub_fail (the publish call that fails, 0 for none), io_ok
\*            (files can be created and the reboot request succeeds),
\*            write_ok (a created file can be written), walk (the
\*            order in which a directory yields its entries), sub_fail
\*            (the subscribe call that fails, 0 for none)
\*   res      "ok", "err_...", or "panic"
\*   ret      the value returned by the last operation
\* A handler is a chain of calls joined by the ? operator: a call made on a
\* context that has failed is not made, and the failed context is the
\* handler's result.
Ok(c) == c.res = "ok"

Fail(c, e) == [c EXCEPT !.res = e, !.ret = None]

\* an error whose text names a value
FailNaming(c, e, v) == [c EXCEPT !.res = e, !.ret = Some(v)]

Return(c, v) == [c EXCEPT !.ret = v]

main_topic(config) == config.microscope.serial_nr

subtopic(root, topic) == root \o "/" \o topic

Message(m_type, device, command, arg) ==
    [json |-> TRUE, m_type |-> m_type, device |-> device,
     command |-> command, arg |-> arg]

\* send_message / send_aim_message: publish on <root>/aim
Published(client) == SelectSeq(client, LAMBDA call : call.call = "publish")

send_aim_message(c, message) ==
    IF ~Ok(c) THEN c
    ELSE IF Len(Published(c.client)) + 1 = c.env.pub_fail
    THEN Fail(c, "err_publish")
    ELSE [c EXCEPT !.client =
             Append(@, [call    |-> "publish",
                        topic   |-> subtopic(main_topic(c.config), "aim"),
                        message |-> message])]

\* ------------------------------------------------------------------------
\* The catalog (available_patterns)
\* ------------------------------------------------------------------------
\* str::split: the parts of s between the separators
RECURSIVE split(_, _)
split(s, sep) ==
    LET seps == {k \in 1..Len(s) : s[k] = sep}
        k1 == CHOOSE k \in seps : \A l \in seps : k <= l
    IN  IF seps = {} THEN <<s>>
        ELSE <<SubSeq(s, 1, k1 - 1)>> \o split(SubSeq(s, k1 + 1, Len(s)), sep)

\* APattern::default()
APattern == [properties |-> <<>>, property_values |-> <<>>]

\* process_value appending the property whether or not it is listed already
process_value_always_pushing(map_entry, property, value) ==
    [properties |-> Append(map_entry.properties, property),
     property_values |->
        IF property \in DOMAIN map_entry.property_values
        THEN [map_entry.property_values EXCEPT ![property].values = Append(@, value)]
        ELSE (property :> [values |-> <<value>>]) @@ map_entry.property_values]

\* the closure process_value: a property not yet listed is appended to the
\* property list and gets an empty value list; the value is always appended
process_value(map_entry, property, value) ==
    IF \E k \in 1..Len(map_entry.properties) : map_entry.properties[k] = property
    THEN [map_entry EXCEPT !.property_values[property].values = Append(@, value)]
    ELSE [properties |-> Append(map_entry.properties, property),
          property_values |-> (property :> [values |-> <<value>>]) @@ map_entry.property_values]

\* HashMap::entry(name).or_default()
or_default(patterns, name) ==
    IF name \in DOMAIN patterns THEN patterns ELSE (name :> APattern) @@ patterns

\* the loop over the parts after the name: a property and its value at a
\* time; a property without a value ends the work on this entry, and what
\* was entered before stays
RECURSIVE process_pairs(_, _, _)
process_pairs(patterns, name, parts) ==
    IF Len(parts) < 2 THEN patterns
    ELSE process_pairs(
             [patterns EXCEPT ![name] = process_value(@, parts[1], parts[2])],
             name, SubSeq(parts, 3, Len(parts)))

\* process_entry of the first loop, for a regular file of the base
\* directory: the family is entered first, then the pairs
process_entry(patterns, file_name) ==
    process_pairs(or_default(patterns, split(file_stem(file_name), "_")[1]),
                  split(file_stem(file_name), "_")[1],
                  Tail(split(file_stem(file_name), "_")))

\* the first loop over the entries in the order the directory yields them
RECURSIVE scan_base(_, _)
scan_base(patterns, entries) ==
    IF entries = <<>> THEN patterns
    ELSE scan_base(process_entry(patterns, entries[1].file), Tail(entries))

\* the second loop: every file of custom_patterns is a value of the
\* property "filename" of the family "custom"
RECURSIVE scan_custom(_, _)
scan_custom(patterns, entries) ==
    IF entries = <<>> THEN patterns
    ELSE scan_custom(
             [or_default(patterns, <<"custom">>) EXCEPT
                 ![<<"custom">>] = process_value(@, <<"filename">>, entries[1].file)],
             Tail(entries))

\* the tokens of the names of the installation in byte order
Lexicon == <<".", "10", "20", "a", "b", "custom", "gauss", "ring", "size">>

rank(token) == CHOOSE k \in 1..Len(Lexicon) : Lexicon[k] = token

\* the order of String: the first differing token decides, a proper prefix
\* comes first
RECURSIVE str_lt(_, _)
str_lt(a, b) ==
    IF b = <<>> THEN FALSE
    ELSE IF a = <<>> THEN TRUE
    ELSE IF a[1] = b[1] THEN str_lt(Tail(a), Tail(b))
    ELSE rank(a[1]) < rank(b[1])

\* keys().cloned().collect() followed by sort(): the names ascending
RECURSIVE sort(_)
sort(names) ==
    IF names = {} THEN <<>>
    ELSE LET least == CHOOSE n \in names : \A o \in names \ {n} : str_lt(n, o)
         IN  <<least>> \o sort(names \ {least})

\* the number of arrangements of n entries
RECURSIVE factorial(_)
factorial(n) == IF n <= 1 THEN 1 ELSE n * factorial(n - 1)

\* the elements of a set in some fixed order
RECURSIVE enumerate(_)
enumerate(entries) ==
    IF entries = {} THEN <<>>
    ELSE LET e == CHOOSE e \in entries : TRUE
         IN  <<e>> \o enumerate(entries \ {e})

\* the walk-th arrangement of a sequence
RECURSIVE arrange(_, _)
arrange(entries, walk) ==
    IF entries = <<>> THEN <<>>
    ELSE LET k == (walk % Len(entries)) + 1
         IN  <<entries[k]>> \o
             arrange(SubSeq(entries, 1, k - 1) \o SubSeq(entries, k + 1, Len(entries)),
                     walk \div Len(entries))

\* WalkDir::new(dir).min_depth(1).max_depth(1), the regular files: the
\* files directly inside dir, in the order the directory yields them, which
\* is any (walk numbers the arrangements)
WalkDir(fs, dir, walk) ==
    arrange(enumerate({f \in DOMAIN fs : f.dir = dir}), walk)

\* the catalog of the entries of the two directories
available_patterns_of(base, custom) ==
    [patterns |-> scan_custom(scan_base(<<>>, base), custom),
     pattern_names |-> sort(DOMAIN scan_custom(scan_base(<<>>, base), custom))]

\* available_patterns: the two directories are read one after the other,
\* each in the order it yields its entries
available_patterns(fs, config, walk) ==
    available_patterns_of(
        WalkDir(fs, config.dir_path.base_patterns, walk),
        WalkDir(fs, config.dir_path.base_patterns \o <<"custom_patterns">>,
                walk \div factorial(Cardinality(
                    {f \in DOMAIN fs : f.dir = config.dir_path.base_patterns}))))

send_available_patterns(c) ==
    IF ~Ok(c) THEN c
    ELSE send_aim_message(c, Message("device", "aim", "availablePatterns",
                                     available_patterns(c.fs, c.config, c.env.walk)))

\* send_current_state: a stub that publishes nothing
send_current_state(c) == c

\* send_prestack_done publishing nothing
send_prestack_done_silent(c) == c

send_prestack_done(c) ==
    send_aim_message(c, Message("device", "aim", "response", "PreStack done"))

send_get_lasers(c) ==
    send_aim_message(c, Message("device", "lasers", "get", <<>>))

\* send_set_correction_pattern_deltas without the ? on the merge before it
send_set_correction_pattern_deltas_unconditionally(c, wavelength) ==
    [c EXCEPT !.client =
        Append(@, [call    |-> "publish",
                   topic   |-> subtopic(main_topic(c.config), "aim"),
                   message |-> Message("device", "aim", "setCorrectionPatternDeltas",
                                       [wavelength |-> wavelength, success |-> TRUE])])]

send_set_correction_pattern_deltas(c, wavelength) ==
    send_aim_message(c, Message("device", "aim", "setCorrectionPatternDeltas",
                                [wavelength |-> wavelength, success |-> TRUE]))

\* ------------------------------------------------------------------------
\* Array cache
\* ------------------------------------------------------------------------
\* insert into a cache that keeps the latest entry only
insert_dropping_others(cache, path, array) == [p \in {path} |-> array]

insert(cache, path, array) ==
    [p \in DOMAIN cache \cup {path} |-> IF p = path THEN array ELSE cache[p]]

\* load_data on a miss: r is the Result of read_image_from_file
load_data_miss(c, path, r) ==
    IF r.res # "ok" THEN Fail(c, r.res)
    ELSE [c EXCEPT !.cache = insert(@, path, r.ret), !.ret = r.ret]

\* load_data reading the file on a hit too
load_data_always_reads(c, path, dim) ==
    load_data_miss(c, path, read_image_from_file(c.fs, path, dim))

\* load_data: read the file on a miss only; returns the cached array
load_data(c, path, dim) ==
    IF path \notin DOMAIN c.cache
    THEN load_data_miss(c, path, read_image_from_file(c.fs, path, dim))
    ELSE Return(c, c.cache[path])

\* load_data(&path, dim)? on the path that c, the Result of a resolution,
\* returned
load_resolved(c, dim) ==
    IF Ok(c) THEN load_data(c, c.ret, dim) ELSE c

\* put_pattern: copy the pattern to the texture and present it
put_pattern(c, pattern) == [c EXCEPT !.pixels = pattern]

\* ------------------------------------------------------------------------
\* File resolution
\* ------------------------------------------------------------------------
\* the first path of cands that is a file, or 0
FirstFile(fs, cands) ==
    LET hits == {k \in 1..Len(cands) : is_file(fs, cands[k])}
    IN  IF hits = {} THEN 0 ELSE CHOOSE k \in hits : \A l \in hits : k <= l

\* the factory variant probed first
FlatnessVariantsFactoryFirst == << <<"_factory">>, <<>> >>

\* the variants of a flatness file name, in the order they are probed
FlatnessVariants == << <<>>, <<"_factory">> >>

\* the paths probed for a wavelength, in order: variant by variant, and for
\* each variant extension by extension
FlatnessCandidates(config, wavelength) ==
    LET filename == <<"flatness_wavelength_", ToString(wavelength)>>
        exts == config.image_file_extensions
        n == Len(exts)
    IN  [k \in 1..(Len(FlatnessVariants) * n) |->
            Path(config.dir_path.flatness_corr_patterns,
                 filename \o FlatnessVariants[((k - 1) \div n) + 1]
                          \o exts[((k - 1) % n) + 1])]

get_file_path_for_flatness_corr_pattern(c, wavelength) ==
    LET cands == FlatnessCandidates(c.config, wavelength)
        k == FirstFile(c.fs, cands)
    IN  IF k = 0 THEN FailNaming(c, "err_no_flatness", wavelength)
        ELSE Return(c, cands[k])

\* the order in which a HashMap built from pairs yields them: any
\* arrangement of the pairs, the hash state of the map choosing which (the
\* values below factorial(Len(pairs)) give every arrangement); a map yields
\* the same order every time it is iterated
hash_iter(pairs, hash) == arrange(pairs, hash)

RECURSIVE base_filename(_, _)
base_filename(filename, pairs) ==
    IF pairs = <<>> THEN filename
    ELSE base_filename(filename \o <<"_", pairs[1][1], "_", pairs[1][2]>>, Tail(pairs))

\* the paths probed for a base pattern: set_extension is applied to the
\* same path again for each extension
RECURSIVE probe_extensions(_, _)
probe_extensions(path, exts) ==
    IF exts = <<>> THEN <<>>
    ELSE LET next == set_extension(path, exts[1])
         IN  <<next>> \o probe_extensions(next, Tail(exts))

get_file_path_for_base_corr_pattern(c, pattern) ==
    IF pattern.kind = "spot" THEN Fail(c, "err_spot_has_no_file")
    ELSE IF pattern.kind = "custom"
    THEN Return(c, join(c.config.dir_path.base_patterns, pattern.filename))
    ELSE LET filename == base_filename(pattern.filename,
                                       hash_iter(pattern.properties, pattern.hash))
             path == Path(c.config.dir_path.base_patterns, filename)
             cands == probe_extensions(path, c.config.image_file_extensions)
             k == FirstFile(c.fs, cands)
         IN  IF k = 0 THEN Fail(c, "err_no_base_pattern") ELSE Return(c, cands[k])

\* ------------------------------------------------------------------------
\* Correction merge
\* ------------------------------------------------------------------------
\* add_deltas_to_pattern with the cache updated before the file is saved
add_deltas_to_pattern_cache_first(c2, fp, pattern_deltas) ==
    LET old_pattern == c2.ret
        delta == base64_to_ndarray(pattern_deltas.imagedata, pattern_deltas.shape_xy)
        new_pattern == ArrayAdd(old_pattern, delta.ret)
        fp2 == set_file_name(fp, replace(fp.file, "_factory"))
        c3 == [c2 EXCEPT !.cache = insert(@, fp2, new_pattern), !.ret = None]
        saved == save_image(c2.fs, fp2, new_pattern, c2.env.io_ok,
                           c2.env.write_ok)
    IN  IF ~Ok(c2) THEN c2
        ELSE IF delta.res # "ok" THEN Fail(c2, delta.res)
        ELSE IF ~Broadcastable(delta.ret.shape, old_pattern.shape) THEN Fail(c2, "panic")
        ELSE IF saved.res # "ok" THEN Fail([c3 EXCEPT !.fs = saved.fs], saved.res)
        ELSE [c3 EXCEPT !.fs = saved.fs]

\* add_correction_pattern_deltas from the decoding of the deltas on: c2 is
\* the Result of loading the file fp, its value the old pattern
add_deltas_to_pattern(c2, fp, pattern_deltas) ==
    LET old_pattern == c2.ret
        delta == base64_to_ndarray(pattern_deltas.imagedata, pattern_deltas.shape_xy)
        new_pattern == ArrayAdd(old_pattern, delta.ret)
        fp2 == set_file_name(fp, replace(fp.file, "_factory"))
        saved == save_image(c2.fs, fp2, new_pattern, c2.env.io_ok,
                           c2.env.write_ok)
    IN  IF ~Ok(c2) THEN c2
        ELSE IF delta.res # "ok" THEN Fail(c2, delta.res)
        ELSE IF ~Broadcastable(delta.ret.shape, old_pattern.shape) THEN Fail(c2, "panic")
        ELSE IF saved.res # "ok" THEN Fail([c2 EXCEPT !.fs = saved.fs], saved.res)
        ELSE [c2 EXCEPT !.fs = saved.fs,
                        !.cache = insert(@, fp2, new_pattern),
                        !.ret = None]

\* add_deltas_to_file taking the old pattern from the file, not the cache
add_deltas_to_file_from_disk(c1, pattern_deltas) ==
    add_deltas_to_pattern(
        IF Ok(c1) THEN load_data_always_reads(c1, c1.ret, None) ELSE c1,
        c1.ret, pattern_deltas)

\* add_correction_pattern_deltas from the loading of the file on: c1 is the
\* Result of the resolution, its value the path fp
add_deltas_to_file(c1, pattern_deltas) ==
    add_deltas_to_pattern(load_resolved(c1, None), c1.ret, pattern_deltas)

add_correction_pattern_deltas(c, pattern_deltas) ==
    add_deltas_to_file(
        get_file_path_for_flatness_corr_pattern(c, pattern_deltas.wavelength),
        pattern_deltas)

\* ------------------------------------------------------------------------
\* Pattern computation
\* ------------------------------------------------------------------------
\* Iterator::position on the sequence of the predicate's values: the
\* zero-based index of the first TRUE, or None
position(hit) ==
    LET hits == {k \in 1..Len(hit) : hit[k]}
    IN  IF hits = {} THEN None
        ELSE Some((CHOOSE k \in hits : \A l \in hits : k <= l) - 1)

\* min_by_key returning the last of the least elements
min_by_key_last(keys) ==
    LET least == {k \in 1..Len(keys) : \A l \in 1..Len(keys) : keys[k] <= keys[l]}
    IN  IF keys = <<>> THEN None
        ELSE Some((CHOOSE k \in least : \A l \in least : k >= l) - 1)

\* Iterator::min_by_key on the sequence of the keys: the zero-based index
\* of the first element with the least key, or None for an empty sequence
min_by_key(keys) ==
    LET least == {k \in 1..Len(keys) : \A l \in 1..Len(keys) : keys[k] <= keys[l]}
    IN  IF keys = <<>> THEN None
        ELSE Some((CHOOSE k \in least : \A l \in least : k <= l) - 1)

Max(a, b) == IF a >= b THEN a ELSE b
Min(a, b) == IF a <= b THEN a ELSE b

\* the index into the calibration table: the exact wavelength, else the
\* closest one
scale_id(known_wavelengths, wavelength) ==
    LET exact == position([k \in 1..Len(known_wavelengths) |->
                              known_wavelengths[k] = wavelength])
    IN  IF exact # None THEN exact
        ELSE min_by_key([k \in 1..Len(known_wavelengths) |->
                            Max(known_wavelengths[k], wavelength)
                            - Min(known_wavelengths[k], wavelength)])

zeros(dim) == from_shape_fn(dim, [id \in Ids(dim) |-> 0])

\* compute_pattern, the base term: zeros for a spot (whose phase ramp is
\* kept symbolically), else the raster of the resolved file
base_term(c) ==
    IF c.pattern_params.kind = "spot"
    THEN Return(c, zeros(c.config.screen.size))
    ELSE load_resolved(get_file_path_for_base_corr_pattern(c, c.pattern_params),
                       Some(c.config.screen.size))

\* pattern += flat_corr on the cached base raster itself, not on a clone
add_flat_corr_in_place(f2, pattern) ==
    IF ~Ok(f2) THEN f2
    ELSE IF ~Broadcastable(f2.ret.shape, pattern.shape) THEN Fail(f2, "panic")
    ELSE IF f2.pattern_params.kind = "spot" THEN Return(f2, ArrayAdd(pattern, f2.ret))
    ELSE [f2 EXCEPT
            !.ret = ArrayAdd(pattern, f2.ret),
            !.cache = insert(@, get_file_path_for_base_corr_pattern(
                                    f2, f2.pattern_params).ret,
                             ArrayAdd(pattern, f2.ret))]

\* pattern += flat_corr: f2 is the Result of loading the flatness file
add_flat_corr(f2, pattern) ==
    IF ~Ok(f2) THEN f2
    ELSE IF ~Broadcastable(f2.ret.shape, pattern.shape) THEN Fail(f2, "panic")
    ELSE Return(f2, ArrayAdd(pattern, f2.ret))

\* compute_pattern, the flatness correction: b2 is the Result of the base
\* term
flatness_term(b2) ==
    IF ~Ok(b2) \/ ~b2.config.compute_pattern.add_flatness_correction THEN b2
    ELSE add_flat_corr(
            load_resolved(get_file_path_for_flatness_corr_pattern(b2, b2.wavelength),
                          Some(b2.config.screen.size)),
            b2.ret)

\* compute_pattern, the calibration scale and the quantization: c3 is the
\* Result of the terms above, its value their sum.  The quantized pattern is
\* a function of the spot, of the sum of the loaded rasters modulo 2*pi, of
\* wavelength and fresnel (blaze and lens terms) and of the scale factor;
\* the returned value is the record of these.
scale_term(c3) ==
    LET pp == c3.pattern_params
        summed == c3.ret
        scaling == c3.config.compute_pattern.slm_calib_scaling
        id == scale_id(scaling.known_wavelengths, c3.wavelength)
    IN  IF ~Ok(c3) THEN c3
        ELSE IF id = None THEN Fail(c3, "err_no_known_wavelengths")
        ELSE IF id[1] >= Len(scaling.scale_factors) THEN Fail(c3, "panic")
        ELSE Return(c3, [spot       |-> IF pp.kind = "spot" THEN Some(pp.spot) ELSE None,
                         phase      |-> [summed EXCEPT !.data =
                                            [k \in DOMAIN summed.data |->
                                                summed.data[k] % TWO_PI]],
                         wavelength |-> c3.wavelength,
                         fresnel    |-> c3.fresnel,
                         scale      |-> scaling.scale_factors[id[1] + 1]])

compute_pattern(c) == scale_term(flatness_term(base_term(c)))

\* put_computed without the ? on compute_pattern
put_computed_unchecked(c2) == Return(put_pattern(c2, c2.ret), None)

\* update_state after compute_pattern()?: present the pattern
put_computed(c2) ==
    IF ~Ok(c2) THEN c2 ELSE Return(put_pattern(c2, c2.ret), None)

\* update_state with fresnel.unwrap_or_default()
update_state_defaulting(c, pattern_params, fresnel, wavelength) ==
    put_computed(compute_pattern(
        [c EXCEPT
           !.pattern_params = IF pattern_params # None THEN pattern_params[1] ELSE @,
           !.fresnel = IF fresnel # None THEN fresnel[1] ELSE 0,
           !.wavelength = IF wavelength # None THEN wavelength[1] ELSE @]))

\* update_state: assign the given fields, then compute and present
update_state(c, pattern_params, fresnel, wavelength) ==
    put_computed(compute_pattern(
        [c EXCEPT
           !.pattern_params = IF pattern_params # None THEN pattern_params[1] ELSE @,
           !.fresnel = IF fresnel # None THEN fresnel[1] ELSE @,
           !.wavelength = IF wavelength # None THEN wavelength[1] ELSE @]))

\* ------------------------------------------------------------------------
\* Dispatcher
\* ------------------------------------------------------------------------
SUBTOPICS == <<"embedded/aim", "gui/aim", "calibration/aim", "embedded/lasers">>

\* the three reports sent on connect and on InitDone
send_reports(c) ==
    send_current_state(send_available_patterns(send_get_lasers(c)))

\* the subscriptions of on_connect, made topic by topic: the call that
\* fails ends the handler, the subscriptions before it stay made
subscribe(c, made) ==
    [c EXCEPT !.client = @ \o
        [k \in 1..made |->
            [call    |-> "subscribe",
             topic   |-> subtopic(main_topic(c.config), SUBTOPICS[k]),
             message |-> <<>>]]]

\* on_connect: subscribe to the inbound topics, then send the reports
on_connect(c) ==
    send_reports(
        IF c.env.sub_fail = 0
        THEN subscribe(c, Len(SUBTOPICS))
        ELSE Fail(subscribe(c, c.env.sub_fail - 1), "err_subscribe"))

\* max_by_key returning the first of the greatest elements
max_by_key_first(keys) ==
    LET greatest == {k \in 1..Len(keys) : \A l \in 1..Len(keys) : keys[k] >= keys[l]}
    IN  IF keys = <<>> THEN None
        ELSE Some(CHOOSE k \in greatest : \A l \in greatest : k <= l)

\* Iterator::max_by_key on the sequence of the keys: the (one-based) index
\* of the last element with the greatest key, or None
max_by_key(keys) ==
    LET greatest == {k \in 1..Len(keys) : \A l \in 1..Len(keys) : keys[k] >= keys[l]}
    IN  IF keys = <<>> THEN None
        ELSE Some(CHOOSE k \in greatest : \A l \in greatest : k >= l)

\* strongest without the filter
strongest_of_all(lasers) ==
    LET best == max_by_key([k \in 1..Len(lasers) |-> lasers[k].intensity])
    IN  IF best = None THEN None ELSE Some(lasers[best[1]])

\* the laser whose wavelength is adopted: filter, then max_by_key
strongest(lasers) ==
    LET enabled == SelectSeq(lasers, LAMBDA laser : laser.state # 0 /\ laser.name # "led")
        best == max_by_key([k \in 1..Len(enabled) |-> enabled[k].intensity])
    IN  IF best = None THEN None ELSE Some(enabled[best[1]])

custom_pattern_path(config, name) ==
    Path(Cwd \o config.dir_path.base_patterns \o <<"custom_patterns">>, name)

\* available_patterns, the values of the "custom" family: the file names of
\* the files directly inside <base_patterns>/custom_patterns
custom_file_names(fs, config) ==
    {f.file : f \in {g \in DOMAIN fs :
                        g.dir = config.dir_path.base_patterns \o <<"custom_patterns">>}}

\* the match on the Aim command
process_aim_command(c, command, arg) ==
    CASE command = "set" ->
           send_current_state(
               update_state(c, Some(arg.pattern), Some(arg.fresnel), None))
      [] command = "PreStack" ->
           send_prestack_done(send_current_state(
               update_state(c, Some(arg.pattern), Some(arg.fresnel), None)))
      [] command = "get" -> send_current_state(c)
      [] command = "getAllPatterns" -> send_available_patterns(c)
      [] command = "setfresnel" ->
           send_current_state(update_state(c, None, Some(arg.value), None))
      [] command = "setpattern" ->
           send_current_state(update_state(c, Some(arg.pattern), None, None))
      [] command = "uploadimage" ->
           LET r == save_image_data(c.fs, custom_pattern_path(c.config, arg.name),
                                    arg.imagedata, c.env.io_ok, c.env.write_ok)
           IN  send_current_state(send_available_patterns(
                   [c EXCEPT !.fs = r.fs, !.res = r.res]))
      [] command = "deleteimage" ->
           LET r == remove_file(c.fs, custom_pattern_path(c.config, arg.name))
           IN  send_current_state(send_available_patterns(
                   [c EXCEPT !.fs = r.fs, !.res = r.res]))
      [] command = "setCorrectionPatternDeltas" ->
           send_set_correction_pattern_deltas(
               add_correction_pattern_deltas(c, arg), arg.wavelength)
      [] command = "reboot" ->
           IF c.env.io_ok THEN [c EXCEPT !.reboot = TRUE] ELSE Fail(c, "err_reboot")
      [] OTHER -> c

\* an arm of the first match: the ? operator returns from the handler when
\* the arm has failed
arm(c1) == [c |-> c1, returned |-> ~Ok(c1)]

\* the first match of process_message: [c, returned], returned when the
\* handler has returned from inside the match
first_match(c, m) ==
    IF m.m_type = "status" /\ m.device = "embedded" /\ m.command = "initdone"
    THEN arm(send_reports(c))
    ELSE IF m.m_type = "device" /\ m.device = "lasers" /\ m.command = "set"
    THEN LET s == strongest(m.arg.lasers)
         IN  IF s = None THEN [c |-> c, returned |-> TRUE]
             ELSE arm(send_current_state(
                          update_state(c, None, None, Some(s[1].wavelength))))
    ELSE [c |-> c, returned |-> FALSE]

\* the second match of process_message: only Device/Aim passes
second_match(c, m) ==
    IF m.m_type = "device" /\ m.device = "aim"
    THEN process_aim_command(c, m.command, m.arg)
    ELSE Fail(c, "err_unexpected_message")

\* process_message after the first match
after_first_match(first, m) ==
    IF first.returned THEN Return(first.c, None)
    ELSE Return(second_match(first.c, m), None)

process_message(c, m) ==
    IF ~m.json THEN Fail(c, "err_json")
    ELSE after_first_match(first_match(c, m), m)

\* ------------------------------------------------------------------------
\* The installation: configuration, files and inbound messages
\* ------------------------------------------------------------------------
Png == <<".", "png">>
Bmp == <<".", "bmp">>

BaseDir == <<"patterns">>
FlatDir == <<"flatness">>

SpotPattern == [kind |-> "spot", spot |-> "spot1"]
CustomPattern(dir, name) == [kind |-> "custom", filename |-> Path(dir, name)]
\* a file-based selection as deserialized: the family, the pairs in the
\* order the selector declares them, and the hash state of the HashMap that
\* holds them
BasePattern(filename, properties, hash) ==
    [kind |-> "base", filename |-> filename, properties |-> properties,
     hash |-> hash]

ConfigWith(flat, known, factors, wavelength) ==
    [microscope |-> [serial_nr |-> "slm1"],
     dir_path |-> [base_patterns |-> BaseDir, flatness_corr_patterns |-> FlatDir],
     screen |-> [size |-> <<2, 1>>],
     compute_pattern |-> [slm_calib_scaling |-> [known_wavelengths |-> known,
                                                 scale_factors |-> factors],
                          add_flatness_correction |-> flat],
     image_file_extensions |-> <<Png, Bmp>>,
     defaults |-> [fresnel |-> 0, wavelength |-> wavelength, pattern |-> SpotPattern]]

Config(flat, known, factors) == ConfigWith(flat, known, factors, 488)

Configs ==
    {Config(TRUE,  <<450, 500, 550>>, <<200, 220, 240>>),
     Config(FALSE, <<450, 500, 550>>, <<200, 220, 240>>),
     Config(TRUE,  <<488, 561, 640>>, <<200, 220>>)}

FlatnessName(wavelength, variant, ext) ==
    <<"flatness_wavelength_", ToString(wavelength)>> \o variant \o ext

\* the files at start: 488 has a plain and a factory flatness file, 561 a
\* factory file only, 640 a plain file larger than the frame, 405 none
InitialFiles ==
    LET f488  == Path(FlatDir, FlatnessName(488, <<>>, Png))
        f488f == Path(FlatDir, FlatnessName(488, <<"_factory">>, Bmp))
        f561f == Path(FlatDir, FlatnessName(561, <<"_factory">>, Png))
        f640  == Path(FlatDir, FlatnessName(640, <<>>, Bmp))
        gauss == Path(BaseDir, <<"gauss", "_", "size", "_", "10", ".", ".", "png">>)
        a     == Path(BaseDir \o <<"custom_patterns">>, <<"a", ".", "png">>)
    IN  [p \in {f488, f488f, f561f, f640, gauss, a} |->
            CASE p = f488  -> Image(<<2, 1>>, <<10, 20>>)
              [] p = f488f -> Image(<<2, 1>>, <<30, 40>>)
              [] p = f561f -> Image(<<2, 1>>, <<0, 255>>)
              [] p = f640  -> Image(<<3, 1>>, <<1, 2, 3>>)
              [] p = gauss -> Image(<<2, 1>>, <<100, 200>>)
              [] p = a     -> Image(<<1, 1>>, <<7>>)]

Wavelengths == {405, 488, 561, 640}
Fresnels == {0, 7}
Patterns ==
    {SpotPattern,
     BasePattern(<<"gauss">>, << <<"size", "10">> >>, 0),
     BasePattern(<<"gauss">>, << <<"size", "99">> >>, 0),
     CustomPattern(<<"custom_patterns">>, <<"a", ".", "png">>),
     CustomPattern(<<>>, <<"a", ".", "png">>)}

Laser(name, state, wavelength, intensity) ==
    [name |-> name, state |-> state, wavelength |-> wavelength, intensity |-> intensity]

LaserPool ==
    {Laser("led", 1, 405, 9), Laser("l640", 0, 640, 9),
     Laser("l488", 1, 488, 5), Laser("l561", 1, 561, 5), Laser("l640", 1, 640, 2)}

SeqsUpTo(S, n) == UNION {[1..k -> S] : k \in 0..n}

Deltas(wavelength, valid, values, shape_xy) ==
    [wavelength |-> wavelength,
     imagedata |-> [valid |-> valid, values |-> values],
     shape_xy |-> shape_xy]

DeltaRasters ==
    {<< TRUE,  <<0, 0>>,      <<2, 1>> >>,
     << TRUE,  <<510, -255>>, <<2, 1>> >>,
     << TRUE,  <<0, 0, 0>>,   <<3, 1>> >>,
     << TRUE,  <<0>>,         <<2, 1>> >>,
     << FALSE, <<>>,          <<2, 1>> >>}

DataUrl(header, rest) == [header |-> header, rest |-> rest]

Uploads ==
    {DataUrl(<<"data:image", "png">>, <<[valid |-> TRUE, content |-> Image(<<2, 1>>, <<9, 8>>)]>>),
     DataUrl(<<"data:image", "png">>, <<[valid |-> FALSE, content |-> NoImage]>>),
     DataUrl(<<"data:image", "png">>, <<>>),
     DataUrl(<<"png">>, <<[valid |-> TRUE, content |-> Image(<<2, 1>>, <<9, 8>>)]>>)}

Undecodable == [json |-> FALSE, m_type |-> "", device |-> "", command |-> "", arg |-> <<>>]

LasersSet(lists) == {Message("device", "lasers", "set", [lasers |-> l]) : l \in lists}

\* the laser lists of the main specification
LaserLists ==
    {<<>>,
     <<Laser("led", 1, 405, 9), Laser("l640", 0, 640, 9)>>,
     <<Laser("l488", 1, 488, 5)>>,
     <<Laser("l488", 1, 488, 5), Laser("l561", 1, 561, 5)>>,
     <<Laser("l561", 1, 561, 5), Laser("l488", 1, 488, 5)>>,
     <<Laser("l640", 1, 640, 2), Laser("l640", 0, 640, 9)>>,
     <<Laser("led", 1, 405, 9), Laser("l488", 0, 405, 9), Laser("l561", 1, 405, 1)>>}

AimMessages ==
    {Message("device", "aim", cmd, <<>>) :
        cmd \in {"get", "getAllPatterns", "reboot", "response", "disconnect",
                 "availablePatterns"}}
    \cup {Message("device", "aim", cmd, [pattern |-> p, fresnel |-> f]) :
            cmd \in {"set", "PreStack"}, p \in Patterns, f \in Fresnels}
    \cup {Message("device", "aim", "setfresnel", [value |-> f]) : f \in Fresnels}
    \cup {Message("device", "aim", "setpattern", [pattern |-> p]) : p \in Patterns}
    \cup {Message("device", "aim", "uploadimage", [name |-> <<"a">>, imagedata |-> u]) :
            u \in Uploads}
    \cup {Message("device", "aim", "deleteimage", [name |-> n]) :
            n \in {<<"a", ".", "png">>, <<"b", ".", "png">>}}
    \cup {Message("device", "aim", "setCorrectionPatternDeltas",
                  Deltas(w, d[1], d[2], d[3])) :
            w \in Wavelengths, d \in DeltaRasters}

OtherMessages ==
    {Message("status", "embedded", "initdone", <<>>),
     Message("device", "embedded", "initdone", <<>>),
     Message("status", "embedded", "set", <<>>),
     Message("device", "lasers", "get", <<>>),
     Message("status", "aim", "get", <<>>),
     Message("log", "aim", "setfresnel", [value |-> 7])}

Messages == {Undecodable} \cup OtherMessages \cup LasersSet(LaserLists) \cup AimMessages

\* what the surroundings may do while m is handled: any one of the publish
\* calls may fail, and so may the file write or reboot request of a command
\* that makes one; no message makes the handler subscribe
Envs == [pub_fail : 0..2, io_ok : BOOLEAN, write_ok : BOOLEAN, walk : 0..1,
         sub_fail : {0}]

Publishes(m) ==
    IF m.m_type = "status" /\ m.device = "embedded" /\ m.command = "initdone" THEN 2
    ELSE IF m.m_type = "device" /\ m.device = "aim"
            /\ m.command \in {"PreStack", "getAllPatterns", "uploadimage", "deleteimage",
                              "setCorrectionPatternDeltas"} THEN 1
    ELSE 0

UsesIo(m) ==
    /\ m.m_type = "device" /\ m.device = "aim"
    /\ m.command \in {"uploadimage", "setCorrectionPatternDeltas", "reboot"}

WritesFile(m) ==
    /\ m.m_type = "device" /\ m.device = "aim"
    /\ m.command \in {"uploadimage", "setCorrectionPatternDeltas"}

\* m makes the handler recompute the pattern, which iterates the properties
\* of a file-based selection
Recomputes(m) ==
    \/ m.m_type = "device" /\ m.device = "lasers" /\ m.command = "set"
    \/ /\ m.m_type = "device" /\ m.device = "aim"
       /\ m.command \in {"set", "PreStack", "setpattern", "setfresnel"}

EnvsFor(m) ==
    {env \in Envs : /\ env.pub_fail <= Publishes(m)
                    /\ (~env.io_ok => UsesIo(m))
                    /\ (~env.write_ok => env.io_ok /\ WritesFile(m))
                    /\ (env.walk # 0 =>
                           /\ Publishes(m) > 0
                           /\ m.command \notin {"PreStack", "setCorrectionPatternDeltas"})}

\* ------------------------------------------------------------------------
\* State machine
\* ------------------------------------------------------------------------
VARIABLES
    config,          \* Context.config
    wavelength,      \* State.wavelength
    fresnel,         \* State.fresnel
    pattern_params,  \* State.pattern_params
    cache,           \* State.cache
    fs,              \* the files
    client,          \* the calls the last step made on the MQTT client
    pixels,          \* the pattern on the presentation sink
    reboot,          \* an OS reboot has been requested
    pc,              \* "startup", "connect", "loop", or how the process ended
    msg,             \* the inbound message handled by the last step
    result,          \* the Result of the last step
    ret,             \* the value or error detail the last step returned
    nmsgs,           \* inbound messages handled so far
    message_channel, \* the items waiting in the channel of start_consuming
    window_events    \* the events waiting in the window's event pump

vars == <<config, wavelength, fresnel, pattern_params, cache, fs, client,
          pixels, reboot, pc, msg, result, ret, nmsgs, message_channel, window_events>>

NoMsg == [json |-> FALSE, m_type |-> "none", device |-> "", command |-> "", arg |-> <<>>]

\* initialize_state under configuration cfg and files files, before
\* err_wrapper's first update_state
InitWith(cfg, files) ==
    /\ config = cfg
    /\ wavelength = config.defaults.wavelength
    /\ fresnel = config.defaults.fresnel
    /\ pattern_params = config.defaults.pattern
    /\ cache = <<>>
    /\ fs = files
    /\ client = <<>>
    /\ pixels = None
    /\ reboot = FALSE
    /\ pc = "startup"
    /\ msg = NoMsg
    /\ result = "ok"
    /\ ret = None
    /\ nmsgs = 0
    /\ message_channel = <<>>
    /\ window_events = <<>>

Init == \E cfg \in Configs : InitWith(cfg, InitialFiles)

\* the context a handler starts from
Context(env) ==
    [config |-> config, wavelength |-> wavelength, fresnel |-> fresnel,
     pattern_params |-> pattern_params, cache |-> cache, fs |-> fs,
     client |-> <<>>, pixels |-> pixels, reboot |-> reboot,
     env |-> env, res |-> "ok", ret |-> None]

\* the state a handler leaves behind; a panic ends the process, and so does
\* an error where on_err says so
Store(c, on_ok, on_err) ==
    /\ wavelength' = c.wavelength
    /\ fresnel' = c.fresnel
    /\ pattern_params' = c.pattern_params
    /\ cache' = c.cache
    /\ fs' = c.fs
    /\ client' = c.client
    /\ pixels' = c.pixels
    /\ reboot' = c.reboot
    /\ result' = c.res
    /\ ret' = c.ret
    /\ pc' = IF Ok(c) THEN on_ok
             ELSE IF c.res = "panic" THEN "panicked" ELSE on_err
    /\ UNCHANGED config

\* err_wrapper: the first update_state from the defaults; a failure ends
\* the process
Startup ==
    /\ pc = "startup"
    /\ \E env \in {e \in Envs : e.pub_fail = 0 /\ e.io_ok /\ e.write_ok} :
         Store(update_state(Context(env), None, None, None), "connect", "aborted")
    /\ UNCHANGED <<msg, nmsgs, message_channel, window_events>>

\* message_loop up to the loop: on_connect, in which any one of the
\* subscribe calls and of the publish calls may fail; a failure ends the
\* process
OnConnect ==
    /\ pc = "connect"
    /\ \E env \in [pub_fail : 0..2, io_ok : {TRUE}, write_ok : {TRUE}, walk : 0..1,
                   sub_fail : 0..Len(SUBTOPICS)] :
         Store(on_connect(Context(env)), "loop", "aborted")
    /\ UNCHANGED <<msg, nmsgs, message_channel, window_events>>

\* one iteration of the loop that receives m: process_message, an error is
\* logged and the loop continues, a panic ends the process
HandleMessage(m) ==
    /\ pc = "loop"
    /\ nmsgs < MaxMsgs
    /\ \E env \in EnvsFor(m) :
         Store(process_message(Context(env), m), "loop", "loop")
    /\ msg' = m
    /\ nmsgs' = nmsgs + 1
    /\ UNCHANGED <<message_channel, window_events>>

\* one iteration of the loop that finds no message and polls Quit or Escape
WindowQuit ==
    /\ pc = "loop"
    /\ pc' = "quit"
    /\ UNCHANGED <<config, wavelength, fresnel, pattern_params, cache, fs, client,
                   pixels, reboot, msg, result, ret, nmsgs, message_channel,
                   window_events>>

\* the operating system carries out the requested reboot
OsReboot ==
    /\ pc = "loop"
    /\ reboot
    /\ pc' = "rebooted"
    /\ UNCHANGED <<config, wavelength, fresnel, pattern_params, cache, fs, client,
                   pixels, reboot, msg, result, ret, nmsgs, message_channel,
                   window_events>>

Next ==
    \/ Startup
    \/ OnConnect
    \/ \E m \in Messages : HandleMessage(m)
    \/ WindowQuit
    \/ OsReboot

Spec == Init /\ [][Next]_vars

\* ------------------------------------------------------------------------
\* Lasers(Set) with every laser list up to MaxLasers, among a few commands
\* that change what the recomputation meets
\* ------------------------------------------------------------------------
LaserMessages ==
    LasersSet(SeqsUpTo(LaserPool, MaxLasers))
    \cup {Message("device", "aim", "setpattern",
                  [pattern |-> BasePattern(<<"gauss">>, << <<"size", "99">> >>, 0)]),
          Message("device", "aim", "setCorrectionPatternDeltas",
                  Deltas(640, TRUE, <<0, 0, 0>>, <<3, 1>>))}

NextLasers ==
    \/ Startup
    \/ OnConnect
    \/ \E m \in LaserMessages : HandleMessage(m)

SpecLasers == Init /\ [][NextLasers]_vars

\* ------------------------------------------------------------------------
\* Flatness resolution at startup, over every set of flatness files of the
\* default wavelength
\* ------------------------------------------------------------------------
FlatnessFiles(w) ==
    {Path(FlatDir, FlatnessName(w, variant, ext)) :
        variant \in {<<>>, <<"_factory">>}, ext \in {Png, Bmp}}

InitResolve ==
    \E w \in Wavelengths : \E present \in SUBSET FlatnessFiles(w) :
        InitWith(ConfigWith(TRUE, <<450, 500, 550>>, <<200, 220, 240>>, w),
                 [p \in present |-> Image(<<2, 1>>, <<1, 2>>)])

SpecResolve == InitResolve /\ [][Startup]_vars

\* ------------------------------------------------------------------------
\* The calibration lookup at startup, over calibration tables and default
\* wavelengths
\* ------------------------------------------------------------------------
\* entries of a calibration table
MaxTable == 3

KnownPool == {450, 500, 550}
Requests == {400, 450, 500, 525, 530, 550}

\* a scale factor for each index, all different
Factors(known) == [k \in 1..Len(known) |-> 100 + 10 * k]

InitScale ==
    \E known \in SeqsUpTo(KnownPool, MaxTable) : \E w \in Requests :
        InitWith(ConfigWith(FALSE, known, Factors(known), w), InitialFiles)

SpecScale == InitScale /\ [][Startup]_vars

\* ------------------------------------------------------------------------
\* File-based resolution at startup, over default selections with up to two
\* properties and every set of files they can name
\* ------------------------------------------------------------------------
PropertyLists ==
    {<<>>,
     << <<"size", "10">> >>,
     << <<"size", "10">>, <<"shape", "r">> >>,
     << <<"shape", "r">>, <<"size", "10">> >>}

\* the files the selections can name: each name as each probe spells it
BaseFiles ==
    UNION {{probe_extensions(Path(BaseDir, base_filename(<<"gauss">>, pairs)),
                             <<Png, Bmp>>)[k] : k \in 1..2} : pairs \in PropertyLists}

InitBase ==
    \E pairs \in PropertyLists : \E present \in SUBSET BaseFiles :
    \E hash \in 0..(factorial(Len(pairs)) - 1) :
        InitWith([ConfigWith(FALSE, <<450, 500, 550>>, <<200, 220, 240>>, 488)
                     EXCEPT !.defaults.pattern = BasePattern(<<"gauss">>, pairs, hash)],
                 [p \in present |-> Image(<<2, 1>>, <<1, 2>>)])

SpecBase == InitBase /\ [][Startup]_vars

\* ------------------------------------------------------------------------
\* The cache load operation, over uploaded files and target shapes, among
\* DeleteImage commands for the files
\* ------------------------------------------------------------------------
LoadPaths ==
    {Path(BaseDir \o <<"custom_patterns">>, name) :
        name \in {<<"two", ".", "png">>, <<"three", ".", "png">>,
                  <<"corrupt", ".", "png">>, <<"missing", ".", "png">>}}

LoadFiles ==
    [p \in {q \in LoadPaths : q.file[1] # "missing"} |->
        CASE p.file[1] = "two"   -> Image(<<2, 1>>, <<10, 20>>)
          [] p.file[1] = "three" -> Image(<<3, 1>>, <<1, 2, 3>>)
          [] OTHER               -> NoImage]

LoadDims == {None, Some(<<2, 1>>), Some(<<3, 1>>)}

\* the request a load step serves
LoadRequest(path, dim) ==
    [json |-> FALSE, m_type |-> "load", device |-> "", command |-> "",
     arg |-> [path |-> path, dim |-> dim]]

InitLoad ==
    InitWith(ConfigWith(FALSE, <<450, 500, 550>>, <<200, 220, 240>>, 488), LoadFiles)

\* one call of load_data
LoadData(path, dim) ==
    /\ Store(load_data(Context([pub_fail |-> 0, io_ok |-> TRUE, write_ok |-> TRUE,
                                walk |-> 0, sub_fail |-> 0]), path, dim),
             pc, pc)
    /\ msg' = LoadRequest(path, dim)
    /\ UNCHANGED <<nmsgs, message_channel, window_events>>

\* the DeleteImage command for an uploaded file: the file is removed (an
\* error when there is none) and the catalog is reported, the directory
\* yielding the remaining files in any order; the publish call may fail
DeleteImage(name) ==
    /\ \E pub_fail \in 0..1 : \E walk \in 0..(factorial(Cardinality(DOMAIN fs)) - 1) :
          Store(process_message(Context([pub_fail |-> pub_fail, io_ok |-> TRUE,
                                         write_ok |-> TRUE,
                                         walk |-> walk, sub_fail |-> 0]),
                                Message("device", "aim", "deleteimage",
                                        [name |-> name])),
                pc, pc)
    /\ msg' = Message("device", "aim", "deleteimage", [name |-> name])
    /\ UNCHANGED <<nmsgs, message_channel, window_events>>

NextLoad ==
    \/ \E path \in LoadPaths : \E dim \in LoadDims : LoadData(path, dim)
    \/ \E path \in LoadPaths : DeleteImage(path.file)

SpecLoad == InitLoad /\ [][NextLoad]_vars

\* ------------------------------------------------------------------------
\* The catalog, over every set of up to MaxFiles files of the base
\* directory and every set of uploads, each directory read in every order
\* ------------------------------------------------------------------------
\* files of the base directory that one scan meets
MaxFiles == 3

\* names in the base directory: complete names, one without a pair, names
\* that repeat a property or a value, and names that end in a property
\* without a value
CatalogNames ==
    {<<"gauss", "_", "size", "_", "10", ".", "png">>,
     <<"gauss", "_", "size", "_", "10", ".", "bmp">>,
     <<"gauss", "_", "size", "_", "20", ".", "png">>,
     <<"gauss", "_", "shape", "_", "round", ".", "png">>,
     <<"ring", "_", "size", "_", "10", "_", "size", "_", "20", ".", "png">>,
     <<"a", ".", "png">>,
     <<"gauss", "_", "size">>,
     <<"gauss", "_", "size", "_", "10", "_", "shape", ".", "png">>,
     <<"b", "_", "size", ".", "png">>}

CustomNames == {<<"a", ".", "png">>, <<"b", ".", "png">>}

CatalogFiles ==
    {base \cup custom :
        base \in {S \in SUBSET {Path(BaseDir, n) : n \in CatalogNames} :
                     Cardinality(S) <= MaxFiles},
        custom \in SUBSET {Path(BaseDir \o <<"custom_patterns">>, n) : n \in CustomNames}}

\* the orders in which the two directories can yield their entries
Walks == 0..(factorial(MaxFiles) * factorial(Cardinality(CustomNames)) - 1)

InitCatalog ==
    \E files \in CatalogFiles :
        InitWith(ConfigWith(FALSE, <<450, 500, 550>>, <<200, 220, 240>>, 488),
                 [p \in files |-> Image(<<1, 1>>, <<7>>)])

\* the loop receives GetAllPatterns
GetAllPatterns ==
    /\ nmsgs = 0
    /\ \E walk \in Walks :
         Store(process_message(Context([pub_fail |-> 0, io_ok |-> TRUE, write_ok |-> TRUE,
                                        walk |-> walk, sub_fail |-> 0]),
                               Message("device", "aim", "getAllPatterns", <<>>)),
               "loop", "loop")
    /\ msg' = Message("device", "aim", "getAllPatterns", <<>>)
    /\ nmsgs' = 1
    /\ UNCHANGED <<message_channel, window_events>>

SpecCatalog == InitCatalog /\ [][GetAllPatterns]_vars

\* ------------------------------------------------------------------------
\* Recomputation from unchanged state, among correction merges and
\* deletions of files
\* ------------------------------------------------------------------------
\* the files at start and the file of the selection with two properties
TwiceFiles ==
    (Path(BaseDir,
          <<"gauss", "_", "size", "_", "10", "_", "shape", "_", "r", ".", ".", "png">>)
        :> Image(<<2, 1>>, <<50, 60>>)) @@ InitialFiles

InitTwice ==
    \E flat \in BOOLEAN : \E w \in {488, 640} :
    \E hash \in 0..1 :
    \E p \in {SpotPattern, BasePattern(<<"gauss">>, << <<"size", "10">> >>, 0),
              BasePattern(<<"gauss">>, << <<"size", "10">>, <<"shape", "r">> >>, hash),
              CustomPattern(<<"custom_patterns">>, <<"a", ".", "png">>)} :
        InitWith([ConfigWith(flat, <<450, 500, 550>>, <<200, 220, 240>>, w)
                     EXCEPT !.defaults.pattern = p],
                 TwiceFiles)

\* update_state without new values: compute and present
Recompute ==
    /\ pc # "panicked"
    /\ Store(update_state(Context([pub_fail |-> 0, io_ok |-> TRUE, write_ok |-> TRUE,
                                   walk |-> 0, sub_fail |-> 0]), None, None, None),
             pc, pc)
    /\ msg' = [json |-> FALSE, m_type |-> "recompute", device |-> "", command |-> "",
               arg |-> <<>>]
    /\ UNCHANGED <<nmsgs, message_channel, window_events>>

\* a command handled between recomputations; the base directory, with its
\* two files, yields them in either order
HandleBetween(m) ==
    /\ pc # "panicked"
    /\ nmsgs < MaxMsgs
    /\ \E walk \in 0..1 :
          Store(process_message(Context([pub_fail |-> 0, io_ok |-> TRUE,
                                         write_ok |-> TRUE,
                                         walk |-> walk, sub_fail |-> 0]), m),
                pc, pc)
    /\ msg' = m
    /\ nmsgs' = nmsgs + 1
    /\ UNCHANGED <<message_channel, window_events>>

NextTwice ==
    \/ Recompute
    \/ \E m \in {Message("device", "aim", "setCorrectionPatternDeltas",
                         Deltas(488, TRUE, <<510, -255>>, <<2, 1>>)),
                 Message("device", "aim", "setCorrectionPatternDeltas",
                         Deltas(640, TRUE, <<0, 0, 0>>, <<3, 1>>)),
                 Message("device", "aim", "deleteimage",
                         [name |-> <<"a", ".", "png">>])} : HandleBetween(m)

SpecTwice == InitTwice /\ [][NextTwice]_vars

\* ------------------------------------------------------------------------
\* The merge of an all-zero delta, over every sample value of the file
\* ------------------------------------------------------------------------
ZeroDelta == Message("device", "aim", "setCorrectionPatternDeltas",
                     Deltas(488, TRUE, <<0>>, <<1, 1>>))

InitZeroDelta ==
    \E s \in 0..255 :
        InitWith(ConfigWith(FALSE, <<450, 500, 550>>, <<200, 220, 240>>, 488),
                 (Path(FlatDir, FlatnessName(488, <<>>, Png)) :> Image(<<1, 1>>, <<s>>)))

\* the loop receives the all-zero delta for the file's wavelength
MergeZeroDelta ==
    /\ nmsgs = 0
    /\ Store(process_message(Context([pub_fail |-> 0, io_ok |-> TRUE, write_ok |-> TRUE,
                                      walk |-> 0, sub_fail |-> 0]), ZeroDelta),
             "loop", "loop")
    /\ msg' = ZeroDelta
    /\ nmsgs' = 1
    /\ UNCHANGED <<message_channel, window_events>>

SpecZeroDelta == InitZeroDelta /\ [][MergeZeroDelta]_vars

\* ------------------------------------------------------------------------
\* The loop with its two queues: items arrive in the channel and events in
\* the window's event pump while the loop runs
\* ------------------------------------------------------------------------
\* events waiting in the event pump
MaxEvents == 2

\* Receiver::try_recv: the first item of the channel, or an error for an
\* empty channel; an item is Some(message) or None, the notice of a lost
\* connection
try_recv(channel) ==
    IF channel = <<>>
    THEN [res |-> "err_empty", ret |-> None, rest |-> channel]
    ELSE [res |-> "ok", ret |-> Head(channel), rest |-> Tail(channel)]

\* if let Ok(Some(message)) = message_channel.try_recv()
received(r) == r.res = "ok" /\ r.ret # None

\* the events that end the loop: Quit and KeyDown of Escape
ends_loop(event) == event \in {"quit", "escape"}

\* the transport puts an item into the channel
Arrive(item) ==
    /\ pc \in {"connect", "loop", "quit"}
    /\ nmsgs + Len(message_channel) < MaxMsgs
    /\ message_channel' = Append(message_channel, item)
    /\ UNCHANGED <<config, wavelength, fresnel, pattern_params, cache, fs, client,
                   pixels, reboot, pc, msg, result, ret, nmsgs, window_events>>

\* the window system puts an event into the event pump
WindowEvent(event) ==
    /\ pc \in {"connect", "loop"}
    /\ Len(window_events) < MaxEvents
    /\ window_events' = Append(window_events, event)
    /\ UNCHANGED <<config, wavelength, fresnel, pattern_params, cache, fs, client,
                   pixels, reboot, pc, msg, result, ret, nmsgs, message_channel>>

\* one iteration of the loop polling the window whatever the channel holds
PollWindowFirst ==
    /\ pc = "loop"
    /\ window_events # <<>>
    /\ window_events' = Tail(window_events)
    /\ pc' = IF ends_loop(Head(window_events)) THEN "quit" ELSE "loop"
    /\ UNCHANGED <<config, wavelength, fresnel, pattern_params, cache, fs, client,
                   pixels, reboot, msg, result, ret, nmsgs, message_channel>>

\* one iteration of the loop whose try_recv yields no message: the item, if
\* any, is consumed, then one window event, if any, is polled; Quit and
\* Escape end the loop
PollWindow ==
    /\ pc = "loop"
    /\ ~received(try_recv(message_channel))
    /\ message_channel' = try_recv(message_channel).rest
    /\ window_events' = IF window_events = <<>> THEN <<>> ELSE Tail(window_events)
    /\ pc' = IF window_events # <<>> /\ ends_loop(Head(window_events))
             THEN "quit" ELSE "loop"
    /\ UNCHANGED <<config, wavelength, fresnel, pattern_params, cache, fs, client,
                   pixels, reboot, msg, result, ret, nmsgs>>

\* one iteration of the loop whose try_recv yields a message: process_message
\* runs to its end, an error is logged, and the loop continues
ReceiveMessage ==
    /\ pc = "loop"
    /\ received(try_recv(message_channel))
    /\ \E env \in EnvsFor(try_recv(message_channel).ret[1]) :
         Store(process_message(Context(env), try_recv(message_channel).ret[1]),
               "loop", "loop")
    /\ msg' = try_recv(message_channel).ret[1]
    /\ nmsgs' = nmsgs + 1
    /\ message_channel' = try_recv(message_channel).rest
    /\ UNCHANGED window_events

NextLoop ==
    \/ Startup
    \/ OnConnect
    \/ \E m \in {Message("device", "aim", "setfresnel", [value |-> f]) : f \in Fresnels}
                \cup {Message("device", "aim", "get", <<>>), Undecodable} :
          Arrive(Some(m))
    \/ Arrive(None)
    \/ \E event \in {"quit", "escape", "other"} : WindowEvent(event)
    \/ ReceiveMessage
    \/ PollWindow

SpecLoop == InitWith(Config(FALSE, <<450, 500, 550>>, <<200, 220, 240>>), InitialFiles)
            /\ [][NextLoop]_vars

\* ------------------------------------------------------------------------
\* Properties
\* ------------------------------------------------------------------------
\* the last step handled an inbound message
Handled == msg # NoMsg

IsMsg(m_type, device, command) ==
    /\ msg.json
    /\ msg.m_type = m_type /\ msg.device = device /\ msg.command = command

IsAim(command) == IsMsg("device", "aim", command)

\* C1: handling a message never ends the process, except for Device/Aim
\* (Reboot): every failure is an error that is logged, after which the loop
\* goes on.
C1_OnlyRebootEndsTheProcess ==
    (Handled /\ ~IsAim("reboot")) => pc # "panicked"

\* C2: a message whose handling fails with a decode, resolution or I/O
\* error leaves wavelength, fresnel and pattern selection as they were
\* before the message.
C2_FailureKeepsDeviceState ==
    [][(nmsgs' = nmsgs + 1
        /\ result' \notin {"ok", "panic", "err_unexpected_message"})
        => /\ wavelength' = wavelength
           /\ fresnel' = fresnel
           /\ pattern_params' = pattern_params]_vars

\* a cached array agrees with a file: it is what reading the file gives, in
\* its own shape or in the frame's, or the file is what saving the array
\* gives
Agrees(array, path) ==
    /\ is_file(fs, path)
    /\ fs[Canon(path)].valid
    /\ \/ array = read_image_from_file(fs, path, None).ret
       \/ array = read_image_from_file(fs, path, Some(config.screen.size)).ret
       \/ LET q == quantize_for_save(array)
          IN  fs[Canon(path)] = Image(q.shape, q.data)

\* C3: every cached array is consistent with the content its file has had
\* since this process last read or wrote it (no one else writes the files).
C3_CacheConsistentWithFiles ==
    \A path \in DOMAIN cache : Agrees(cache[path], path)

\* the step handles a SetCorrectionPatternDeltas message
MergeStep ==
    /\ nmsgs' = nmsgs + 1
    /\ msg'.json
    /\ msg'.m_type = "device" /\ msg'.device = "aim"
    /\ msg'.command = "setCorrectionPatternDeltas"

\* the flatness file resolved for wavelength w before the step
Resolved(w) ==
    get_file_path_for_flatness_corr_pattern(
        Context([pub_fail |-> 0, io_ok |-> TRUE, write_ok |-> TRUE,
                 walk |-> 0, sub_fail |-> 0]), w).ret

IsFactory(path) == \E k \in 1..Len(path.file) : path.file[k] = "_factory"

\* the path with every "_factory" taken out of its file name
NonFactory(path) ==
    [path EXCEPT !.file = SelectSeq(@, LAMBDA t : t # "_factory")]

\* the correction array the merge starts from: the cached one, else the file
Existing(path) ==
    IF path \in DOMAIN cache THEN cache[path]
    ELSE read_image_from_file(fs, path, None).ret

ElementwiseSum(array, values) ==
    [shape |-> array.shape,
     data  |-> [k \in 1..Len(array.data) |-> array.data[k] + values[k]]]

\* C4: a successful SetCorrectionPatternDeltas{w, d} saves existing + d to
\* the non-factory name of the resolved file and makes that sum the cache
\* entry of that path and of no other; no factory file is written and no
\* cache entry of a factory path is changed.
C4_MergeWritesNonFactory ==
    [][(MergeStep /\ result' = "ok") =>
        LET fp == Resolved(msg'.arg.wavelength)
            target == NonFactory(fp)
            sum == ElementwiseSum(Existing(fp), msg'.arg.imagedata.values)
            q == quantize_for_save(sum)
        IN  /\ is_file(fs', target)
            /\ fs'[Canon(target)] = Image(q.shape, q.data)
            /\ target \in DOMAIN cache'
            /\ cache'[target] = sum
            /\ \A f \in DOMAIN fs \cup DOMAIN fs' :
                 f # Canon(target) => f \in DOMAIN fs /\ f \in DOMAIN fs' /\ fs'[f] = fs[f]
            /\ ~IsFactory(target)
            /\ \A p \in DOMAIN cache :
                 p # target => p \in DOMAIN cache' /\ cache'[p] = cache[p]
            /\ \A p \in DOMAIN cache' \ (DOMAIN cache \cup {target}) :
                 p = fp /\ cache'[p] = read_image_from_file(fs, fp, None).ret]_vars

\* C4 witness: a merge for 561, which has a factory file only, succeeded
\* and the plain path holds the merged array
C4_Witness ==
    /\ IsAim("setCorrectionPatternDeltas") /\ result = "ok"
    /\ msg.arg.wavelength = 561
    /\ msg.arg.imagedata.values = <<510, -255>>
    /\ Path(FlatDir, FlatnessName(561, <<>>, Png)) \in DOMAIN cache
    /\ Path(FlatDir, FlatnessName(561, <<"_factory">>, Png)) \in DOMAIN cache

\* C5: a SetCorrectionPatternDeltas whose merge fails (no flatness file,
\* undecodable base64, wrong raster length, failed save) leaves every cache
\* entry as it was; an entry it adds is the file it loaded, never the
\* merged array.  (A failure to publish the acknowledgment comes after a
\* completed merge and is not a failed merge.)
C5_FailedMergeKeepsCache ==
    [][(MergeStep /\ result' \notin {"ok", "err_publish"}) =>
        /\ \A p \in DOMAIN cache : p \in DOMAIN cache' /\ cache'[p] = cache[p]
        /\ \A p \in DOMAIN cache' \ DOMAIN cache :
             cache'[p] = read_image_from_file(fs, p, None).ret]_vars

\* C5 witness: a merge with a non-zero delta failed at the save
C5_Witness ==
    /\ IsAim("setCorrectionPatternDeltas") /\ result = "err_io"
    /\ msg.arg.imagedata.values = <<510, -255>>
    /\ cache # <<>>

\* the flatness files of the default wavelength, variant by variant in the
\* order given, each over the configured extensions in configured order
ProbeOrder(variants) ==
    LET exts == config.image_file_extensions
        n == Len(exts)
    IN  [k \in 1..(Len(variants) * n) |->
            Path(FlatDir, FlatnessName(config.defaults.wavelength,
                                       variants[((k - 1) \div n) + 1],
                                       exts[((k - 1) % n) + 1]))]

\* startup resolved the first existing file of order, or failed naming the
\* wavelength when there is none
ResolvedFirstOf(order) ==
    IF \A k \in 1..Len(order) : ~is_file(fs, order[k])
    THEN /\ pc = "aborted"
         /\ result = "err_no_flatness"
         /\ ret = Some(config.defaults.wavelength)
    ELSE \E k \in 1..Len(order) :
            /\ is_file(fs, order[k])
            /\ \A j \in 1..(k - 1) : ~is_file(fs, order[j])
            /\ pc = "connect"
            /\ DOMAIN cache = {order[k]}

\* C6 as stated: the factory variant is probed first and the plain variant
\* second, each across the extensions in configured order; the first
\* existing file is returned, and none is a resolution error naming the
\* wavelength.
C6_FactoryProbedFirst ==
    pc # "startup" => ResolvedFirstOf(ProbeOrder(<< <<"_factory">>, <<>> >>))

\* C6 amended: the plain variant is probed first and the factory variant
\* second, each across the extensions in configured order; the first
\* existing file is returned (the plain file when both exist), and none is
\* a resolution error naming the wavelength.
C6_PlainProbedFirst ==
    pc # "startup" => ResolvedFirstOf(ProbeOrder(<< <<>>, <<"_factory">> >>))

\* C6 witness: a plain and a factory file exist and the plain one was
\* loaded
C6_Witness ==
    /\ pc = "connect"
    /\ is_file(fs, Path(FlatDir, FlatnessName(wavelength, <<"_factory">>, Png)))
    /\ is_file(fs, Path(FlatDir, FlatnessName(wavelength, <<>>, Bmp)))
    /\ DOMAIN cache = {Path(FlatDir, FlatnessName(wavelength, <<>>, Bmp))}

Qualifies(laser) == laser.state # 0 /\ laser.name # "led"

\* the lasers of the Lasers(Set) message handled last
Lasers == msg.arg.lasers

\* laser k qualifies and no qualifying laser is more intense
Maximal(k) ==
    /\ Qualifies(Lasers[k])
    /\ \A j \in 1..Len(Lasers) :
         Qualifies(Lasers[j]) => Lasers[j].intensity <= Lasers[k].intensity

\* C7 as stated: after Lasers(Set) the wavelength is that of the first
\* laser in the list that is maximal among the qualifying ones.
C7_FirstMaximalWins ==
    (IsMsg("device", "lasers", "set") /\ \E k \in 1..Len(Lasers) : Qualifies(Lasers[k]))
    => \E k \in 1..Len(Lasers) :
          /\ Maximal(k)
          /\ \A j \in 1..(k - 1) : ~Maximal(j)
          /\ wavelength = Lasers[k].wavelength

\* C7 amended: after Lasers(Set) the wavelength is that of the last laser
\* in the list that is maximal among the qualifying ones.
C7_LastMaximalWins ==
    (IsMsg("device", "lasers", "set") /\ \E k \in 1..Len(Lasers) : Qualifies(Lasers[k]))
    => \E k \in 1..Len(Lasers) :
          /\ Maximal(k)
          /\ \A j \in (k + 1)..Len(Lasers) : ~Maximal(j)
          /\ wavelength = Lasers[k].wavelength

\* C7 witness: two qualifying lasers of equal intensity, the second adopted
C7_Witness ==
    /\ IsMsg("device", "lasers", "set")
    /\ Lasers = <<Laser("l488", 1, 488, 5), Laser("l561", 1, 561, 5)>>
    /\ wavelength = 561
    /\ result # "panic"

Distance(a, b) == IF a >= b THEN a - b ELSE b - a

\* index k is the one the lookup is to select in table known for w
Selected(known, w, k) ==
    IF \E l \in 1..Len(known) : known[l] = w
    THEN /\ known[k] = w
         /\ \A l \in 1..(k - 1) : known[l] # w
    ELSE /\ \A l \in 1..Len(known) : Distance(known[k], w) <= Distance(known[l], w)
         /\ \A l \in 1..(k - 1) : Distance(known[l], w) > Distance(known[k], w)

\* C8: compute uses the factor at the index of the wavelength if the table
\* has it, else at the smallest index of a closest known wavelength; with
\* table [450, 500, 550], 500 gives index 1, 530 index 2, 525 index 1; an
\* empty table is an error.
C8_ScaleFactorSelection ==
    pc # "startup" =>
        LET scaling == config.compute_pattern.slm_calib_scaling
            known == scaling.known_wavelengths
        IN  IF known = <<>>
            THEN pc = "aborted" /\ result = "err_no_known_wavelengths"
            ELSE /\ pc = "connect"
                 /\ \E k \in 1..Len(known) :
                       /\ Selected(known, wavelength, k)
                       /\ pixels.scale = scaling.scale_factors[k]
                 /\ known = <<450, 500, 550>> =>
                       /\ wavelength = 500 => pixels.scale = scaling.scale_factors[1 + 1]
                       /\ wavelength = 530 => pixels.scale = scaling.scale_factors[2 + 1]
                       /\ wavelength = 525 => pixels.scale = scaling.scale_factors[1 + 1]

\* C8 witness: 525 against [450, 500, 550] took the factor of 500
C8_Witness ==
    /\ pc = "connect"
    /\ config.compute_pattern.slm_calib_scaling.known_wavelengths = <<450, 500, 550>>
    /\ wavelength = 525
    /\ pixels.scale = 120

\* C9: handling a decoded message ends with the "unexpected message" error
\* exactly when it is none of Status/Embedded(InitDone), Device/Lasers(Set)
\* and Device/Aim.
C9_UnexpectedIffNotHandled ==
    (Handled /\ msg.json) =>
        (result = "err_unexpected_message"
         <=> ~(\/ IsMsg("status", "embedded", "initdone")
               \/ IsMsg("device", "lasers", "set")
               \/ (msg.m_type = "device" /\ msg.device = "aim")))

IsPublish(call, device, command) ==
    /\ call.call = "publish"
    /\ call.topic = "slm1/aim"
    /\ call.message.device = device
    /\ call.message.command = command

\* the three reports, in order: a laser-state request, an available-
\* patterns report and a further message, the current-state report
ThreeReports(calls) ==
    /\ Len(calls) = 3
    /\ IsPublish(calls[1], "lasers", "get")
    /\ IsPublish(calls[2], "aim", "availablePatterns")
    /\ calls[3].call = "publish" /\ calls[3].topic = "slm1/aim"

\* C10: on connect the dispatcher subscribes to the four inbound topics and
\* only then publishes the three reports, in order; every InitDone makes it
\* publish the same three reports.
C10_ReportsOnConnectAndInitDone ==
    /\ (pc = "loop" /\ nmsgs = 0) =>
          /\ Len(client) = 7
          /\ \A k \in 1..4 : client[k].call = "subscribe"
          /\ <<client[1].topic, client[2].topic, client[3].topic, client[4].topic>>
               = <<"slm1/embedded/aim", "slm1/gui/aim", "slm1/calibration/aim",
                   "slm1/embedded/lasers">>
          /\ ThreeReports(SubSeq(client, 5, 7))
    /\ (IsMsg("status", "embedded", "initdone") /\ result # "err_publish") =>
          ThreeReports(client)

\* C11: a setfresnel with value v that succeeds sets fresnel to v, presents
\* the pattern recomputed with it, and then publishes a current-state
\* report on <root>/aim; the same report ends every successful Set,
\* SetPattern and Get.
C11_StateReportedAfterChange ==
    /\ (IsAim("setfresnel") /\ result = "ok") =>
          /\ fresnel = msg.arg.value
          /\ pixels # None /\ pixels.fresnel = msg.arg.value
    /\ ((IsAim("setfresnel") \/ IsAim("set") \/ IsAim("setpattern") \/ IsAim("get"))
        /\ result = "ok") =>
          /\ Len(client) >= 1
          /\ client[Len(client)].call = "publish"
          /\ client[Len(client)].topic = "slm1/aim"

\* the step handles a PreStack message
PreStackStep ==
    /\ nmsgs' = nmsgs + 1
    /\ msg'.json
    /\ msg'.m_type = "device" /\ msg'.device = "aim" /\ msg'.command = "PreStack"

\* the "PreStack done" acknowledgments among calls
PreStackDone(calls) ==
    SelectSeq(calls, LAMBDA call :
        /\ call.call = "publish"
        /\ call.topic = "slm1/aim"
        /\ call.message = Message("device", "aim", "response", "PreStack done"))

\* the step leaves what handling set_msg in the same state under env leaves,
\* on DeviceState, cache and presented pattern
SameEffectAs(set_msg, env) ==
    LET s == process_message(Context(env), set_msg)
    IN  /\ wavelength' = s.wavelength
        /\ fresnel' = s.fresnel
        /\ pattern_params' = s.pattern_params
        /\ cache' = s.cache
        /\ pixels' = s.pixels
        /\ (result' \in {"ok", "err_publish"}) = (s.res = "ok")

\* C12: PreStack{pattern, fresnel} leaves DeviceState and the presented
\* pattern as Set{pattern, fresnel} does; when it succeeds it has published
\* exactly one "PreStack done", an acknowledgment is published only with the
\* new pattern computed and presented, and none when the recompute fails.
C12_PreStackIsSetPlusAck ==
    [][PreStackStep =>
        /\ \E env \in EnvsFor([msg' EXCEPT !.command = "set"]) :
              SameEffectAs([msg' EXCEPT !.command = "set"], env)
        /\ Len(PreStackDone(client')) <= 1
        /\ result' = "ok" => Len(PreStackDone(client')) = 1
        /\ Len(PreStackDone(client')) = 1 =>
              /\ result' = "ok"
              /\ pattern_params' = msg'.arg.pattern
              /\ fresnel' = msg'.arg.fresnel
              /\ pixels' # None /\ pixels'.fresnel = msg'.arg.fresnel
        /\ result' \notin {"ok", "err_publish"} => client' = <<>>]_vars

\* C12 witness: a PreStack with a file-based pattern and a new fresnel
\* succeeded and was acknowledged
C12_Witness ==
    /\ IsAim("PreStack") /\ result = "ok"
    /\ msg.arg.pattern.kind = "base" /\ msg.arg.fresnel = 7
    /\ pixels.fresnel = 7
    /\ Len(PreStackDone(client)) = 1

\* the acknowledgments of a correction merge among calls
MergeAcks(calls) ==
    SelectSeq(calls, LAMBDA call :
        /\ call.call = "publish"
        /\ call.message.command = "setCorrectionPatternDeltas")

\* C13: a SetCorrectionPatternDeltas for wavelength w is acknowledged at
\* most once; the acknowledgment is published on <root>/aim with w and
\* success = true, only with the merged raster in the file and in the cache
\* entry, and never for a merge that failed.
C13_AckOnlyAfterMerge ==
    [][MergeStep =>
        LET acks == MergeAcks(client')
            fp == Resolved(msg'.arg.wavelength)
            target == NonFactory(fp)
            sum == ElementwiseSum(Existing(fp), msg'.arg.imagedata.values)
            q == quantize_for_save(sum)
        IN  /\ Len(acks) <= 1
            /\ Len(client') = Len(acks)
            /\ result' = "ok" => Len(acks) = 1
            /\ result' # "ok" => Len(acks) = 0
            /\ Len(acks) = 1 =>
                 /\ acks[1].topic = "slm1/aim"
                 /\ acks[1].message.arg =
                        [wavelength |-> msg'.arg.wavelength, success |-> TRUE]
                 /\ is_file(fs', target)
                 /\ fs'[Canon(target)] = Image(q.shape, q.data)
                 /\ target \in DOMAIN cache'
                 /\ cache'[target] = sum]_vars

\* C13 witness: a merge with a non-zero delta was acknowledged
C13_Witness ==
    /\ IsAim("setCorrectionPatternDeltas") /\ result = "ok"
    /\ msg.arg.wavelength = 488
    /\ msg.arg.imagedata.values = <<510, -255>>
    /\ Len(MergeAcks(client)) = 1
    /\ client[1].message.arg = [wavelength |-> 488, success |-> TRUE]

\* C14: Device/Aim(Reboot) is terminal: once a Reboot message has been
\* processed and the reboot requested, the dispatcher handles no further
\* inbound message, so nothing changes and nothing is presented or
\* published after it.
C14_RebootIsTerminal ==
    [][reboot =>
        /\ nmsgs' = nmsgs
        /\ UNCHANGED <<wavelength, fresnel, pattern_params, cache, fs, pixels>>]_vars

\* C15: selecting Custom with a file name the catalog reports for the
\* "custom" family resolves to the file of that name in the upload
\* directory, the one UploadImage writes to, and loads it.
C15_CustomResolvesToUpload ==
    (/\ IsAim("setpattern")
     /\ msg.arg.pattern.kind = "custom"
     /\ msg.arg.pattern.filename.dir = <<>>
     /\ msg.arg.pattern.filename.file \in custom_file_names(fs, config))
    => /\ result = "ok"
       /\ \E p \in DOMAIN cache :
             Canon(p) = Canon(custom_pattern_path(config, msg.arg.pattern.filename.file))

\* the paths a file-based selection names when its pairs are taken in the
\* order the selector declares them, extension by extension
DeclaredCandidates ==
    probe_extensions(
        Path(config.dir_path.base_patterns,
             base_filename(pattern_params.filename, pattern_params.properties)),
        config.image_file_extensions)

\* C16: a file-based selection resolves to the family name followed by
\* "_<property>_<value>" for each pair in declared order, under the first
\* configured extension for which the file exists; the same selector always
\* resolves to the same file, and with no such file the result is a
\* resolution error.
C16_DeclaredOrderResolution ==
    (pc # "startup" /\ pattern_params.kind = "base") =>
        LET k == FirstFile(fs, DeclaredCandidates)
        IN  IF k = 0
            THEN pc = "aborted" /\ result = "err_no_base_pattern"
            ELSE pc = "connect" /\ DOMAIN cache = {DeclaredCandidates[k]}

\* C17: a Set, PreStack, SetPattern, SetFresnel or Lasers(Set) that fails
\* with a resolution error (no file for the pattern, or none for the
\* flatness correction of the wavelength) presents nothing: the presented
\* pattern stays the one presented before the message.
C17_ResolutionErrorPresentsNothing ==
    [][(/\ nmsgs' = nmsgs + 1
        /\ msg'.json /\ Recomputes(msg')
        /\ result' \in {"err_no_base_pattern", "err_no_flatness", "err_image"})
       => pixels' = pixels]_vars

\* C17 witness: a SetPattern naming a missing file failed while the spot
\* pattern stays presented
C17_Witness ==
    /\ IsAim("setpattern") /\ result = "err_no_base_pattern"
    /\ pattern_params.kind = "base"
    /\ pixels # None /\ pixels.spot = Some("spot1")

\* C18: load_data on a cached path reads no file, changes no cache entry
\* and returns the stored array whatever shape is asked for; on a miss it
\* adds the entry of that path alone, the array read in the shape asked
\* for, when decoding succeeds, and adds nothing when decoding fails.
C18_LoadDataHitAndMiss ==
    [][(msg'.m_type = "load" /\ fs' = fs) =>
        LET path == msg'.arg.path
            dim == msg'.arg.dim
            r == read_image_from_file(fs, path, dim)
        IN  IF path \in DOMAIN cache
            THEN result' = "ok" /\ cache' = cache /\ ret' = cache[path]
            ELSE IF r.res = "ok"
            THEN /\ result' = "ok"
                 /\ DOMAIN cache' = DOMAIN cache \cup {path}
                 /\ \A p \in DOMAIN cache : cache'[p] = cache[p]
                 /\ cache'[path] = r.ret
                 /\ ret' = r.ret
            ELSE result' # "ok" /\ cache' = cache]_vars

\* C18 witness: a hit that asks for a 3x1 raster of a path cached as 2x1
\* whose file has been removed since
C18_Witness ==
    /\ msg.m_type = "load" /\ result = "ok"
    /\ msg.arg.dim = Some(<<3, 1>>)
    /\ msg.arg.path \in DOMAIN cache
    /\ ~is_file(fs, msg.arg.path)
    /\ ret = cache[msg.arg.path]
    /\ ret.shape = <<2, 1>>

\* C19: no step removes a cache entry, so the set of cached paths only
\* grows; a step other than a correction merge, in particular one that
\* switches the selection between Spot, file-based and Custom, leaves every
\* existing entry as it was.
C19_CacheOnlyGrows ==
    [][/\ DOMAIN cache \subseteq DOMAIN cache'
       /\ ~MergeStep => \A p \in DOMAIN cache : cache'[p] = cache[p]]_vars

\* C19 witness: after a switch from a file-based to a Custom selection the
\* cache holds the flatness, the file-based and the custom raster
C19_Witness ==
    /\ IsAim("setpattern") /\ result = "ok"
    /\ pattern_params.kind = "custom"
    /\ Cardinality(DOMAIN cache) = 3
    /\ \E p \in DOMAIN cache : p.file[1] = "gauss"

\* C20: a Lasers(Set) in which no laser has a state other than 0 and a name
\* other than "led", the empty list included, changes nothing: DeviceState,
\* cache and files stay, nothing is computed or presented, nothing is
\* published, and the handler returns without error.
C20_NoQualifyingLaserNoChange ==
    [][(/\ nmsgs' = nmsgs + 1
        /\ msg'.json
        /\ msg'.m_type = "device" /\ msg'.device = "lasers" /\ msg'.command = "set"
        /\ \A k \in 1..Len(msg'.arg.lasers) : ~Qualifies(msg'.arg.lasers[k]))
       => /\ UNCHANGED <<wavelength, fresnel, pattern_params, cache, fs, pixels, reboot>>
          /\ client' = <<>>
          /\ result' = "ok"
          /\ pc' = pc]_vars

\* C20 witness: a list of a lit "led" and a switched-off laser, both more
\* intense than any other, was handled
C20_Witness ==
    /\ IsMsg("device", "lasers", "set") /\ result = "ok"
    /\ Lasers = <<Laser("led", 1, 405, 9), Laser("l640", 0, 640, 9)>>
    /\ wavelength = 488

\* the catalog the last step published
Reported == client[1].message.arg

\* the last step handled GetAllPatterns and published the catalog
CatalogReported ==
    /\ IsAim("getAllPatterns") /\ result = "ok"
    /\ Len(client) = 1
    /\ IsPublish(client[1], "aim", "availablePatterns")

\* the files of the base directory
BaseEntries == {f \in DOMAIN fs : f.dir = config.dir_path.base_patterns}

\* the name ends in a property without a value
OddTrailingToken(file_name) == Len(split(file_stem(file_name), "_")) % 2 = 0

\* the files without those whose name ends in a property without a value
WithoutOdd == [f \in {g \in DOMAIN fs : ~(g \in BaseEntries /\ OddTrailingToken(g.file))}
                  |-> fs[f]]

\* C21: a file of the base directory whose stem ends in a property without
\* a value is skipped: the catalog reported is one that a scan of the
\* directories without these files yields, so such a file adds no family,
\* no property and no value.
C21_OddTrailingTokenSkipped ==
    CatalogReported =>
        \E walk \in Walks : Reported = available_patterns(WithoutOdd, config, walk)

\* the parts of the name of a file of the base directory
Parts(f) == split(file_stem(f.file), "_")

\* the pairs of a property and a value in the name of a file of the base
\* directory, in order
PairsOf(f) ==
    [k \in 1..((Len(Parts(f)) - 1) \div 2) |-> <<Parts(f)[2 * k], Parts(f)[2 * k + 1]>>]

\* the occurrences of properties with their values in the names of family
\* name among the scanned entries, in the order of the scan
RECURSIVE Occurrences(_, _)
Occurrences(entries, name) ==
    IF entries = <<>> THEN <<>>
    ELSE (IF Parts(entries[1])[1] = name THEN PairsOf(entries[1]) ELSE <<>>)
         \o Occurrences(Tail(entries), name)

\* every upload is an occurrence of "filename" in the family "custom"
UploadOccurrences(entries, name) ==
    IF name = <<"custom">>
    THEN [k \in 1..Len(entries) |-> << <<"filename">>, entries[k].file >>]
    ELSE <<>>

\* the properties of the occurrences, each once, in order of first occurrence
RECURSIVE FirstSeen(_, _)
FirstSeen(seen, occurrences) ==
    IF occurrences = <<>> THEN seen
    ELSE FirstSeen(IF \E k \in 1..Len(seen) : seen[k] = occurrences[1][1]
                   THEN seen ELSE Append(seen, occurrences[1][1]),
                   Tail(occurrences))

\* the values of the occurrences of property p, in order
RECURSIVE ValuesOf(_, _)
ValuesOf(occurrences, p) ==
    IF occurrences = <<>> THEN <<>>
    ELSE (IF occurrences[1][1] = p THEN <<occurrences[1][2]>> ELSE <<>>)
         \o ValuesOf(Tail(occurrences), p)

\* family name of catalog r lists what the occurrences hold
FamilyLists(r, name, occurrences) ==
    /\ r.patterns[name].properties = FirstSeen(<<>>, occurrences)
    /\ DOMAIN r.patterns[name].property_values =
           {occurrences[k][1] : k \in 1..Len(occurrences)}
    /\ \A p \in DOMAIN r.patterns[name].property_values :
           r.patterns[name].property_values[p].values = ValuesOf(occurrences, p)

\* catalog r is the catalog of a scan that met the entries base and custom
CatalogOf(r, base, custom) ==
    /\ DOMAIN r.patterns = {Parts(base[k])[1] : k \in 1..Len(base)}
                           \cup (IF custom = <<>> THEN {} ELSE {<<"custom">>})
    /\ \A name \in DOMAIN r.patterns :
           FamilyLists(r, name,
                       Occurrences(base, name) \o UploadOccurrences(custom, name))

\* the name list of catalog r is the set of its families, ascending
NamesSorted(r) ==
    /\ Len(r.pattern_names) = Cardinality(DOMAIN r.patterns)
    /\ {r.pattern_names[k] : k \in 1..Len(r.pattern_names)} = DOMAIN r.patterns
    /\ \A k \in 1..(Len(r.pattern_names) - 1) :
           str_lt(r.pattern_names[k], r.pattern_names[k + 1])

\* C22: for every scan, each family's property list holds each of its
\* properties once, in order of first occurrence, and has the members of
\* the keys of its value mapping; each property's value list holds one
\* value per occurrence of the property with a value in a scanned file
\* name, duplicates kept; the name list is the set of the family names,
\* ascending.
C22_CatalogLists ==
    CatalogReported =>
        /\ NamesSorted(Reported)
        /\ \E walk \in Walks :
               CatalogOf(Reported,
                         WalkDir(fs, config.dir_path.base_patterns, walk),
                         WalkDir(fs, config.dir_path.base_patterns \o <<"custom_patterns">>,
                                 walk \div factorial(Cardinality(BaseEntries))))

\* C22 witness: a scan of three files of the family gauss and an upload has
\* reported the properties in order of first occurrence, the value 10 twice,
\* and the two families in ascending order
C22_Witness ==
    /\ CatalogReported
    /\ Reported.pattern_names = << <<"custom">>, <<"gauss">> >>
    /\ Reported.patterns[<<"gauss">>].properties = << <<"size">>, <<"shape">> >>
    /\ Reported.patterns[<<"gauss">>].property_values[<<"size">>].values
           = << <<"10">>, <<"10">> >>
    /\ Reported.patterns[<<"gauss">>].property_values[<<"shape">>].values
           = << <<"round">> >>

\* the step recomputes from the state, the configuration and the files that
\* the step before it recomputed from
RecomputedTwice ==
    /\ msg.m_type = "recompute"
    /\ msg'.m_type = "recompute"

\* C23: computing the pattern twice in a row with unchanged DeviceState,
\* configuration and backing files yields the same quantized output both
\* times (and the same error where it fails), whether the first
\* computation found the files in the cache or loaded them from disk.
C23_ComputeIdempotent ==
    [][RecomputedTwice =>
          /\ result' = result
          /\ ret' = ret
          /\ pixels' = pixels
          /\ cache' = cache]_vars

\* C23 witness: a pattern computed from the cached sum of a correction
\* merge, which the file holds only quantized, and from a base raster that
\* the computation loaded from disk
C23_Witness ==
    /\ msg.m_type = "recompute" /\ result = "ok"
    /\ pattern_params.kind = "base"
    /\ config.compute_pattern.add_flatness_correction
    /\ wavelength = 488
    /\ Path(FlatDir, FlatnessName(488, <<>>, Png)) \in DOMAIN cache
    /\ cache[Path(FlatDir, FlatnessName(488, <<>>, Png))].data
           = <<10 * 255 + 510, 20 * 255 - 255>>
    /\ pixels.phase.data = <<(100 * 255 + 10 * 255 + 510) % TWO_PI,
                                (200 * 255 + 20 * 255 - 255) % TWO_PI>>

\* C24: merging an all-zero delta raster for a wavelength leaves the stored
\* flatness file unchanged: every sample s in 0..255 of the file is written
\* back as s (loaded as s * 2*pi/256, 0 added, stored through the save
\* quantization).
C24_ZeroDeltaKeepsFile ==
    [][(MergeStep /\ msg' = ZeroDelta /\ result' = "ok") =>
          fs'[Path(FlatDir, FlatnessName(488, <<>>, Png))]
              = fs[Path(FlatDir, FlatnessName(488, <<>>, Png))]]_vars

\* the step handles the Device/Aim message of the given command
HandlesAim(command) ==
    /\ nmsgs' = nmsgs + 1
    /\ msg'.json
    /\ msg'.m_type = "device" /\ msg'.device = "aim"
    /\ msg'.command = command

\* the step handles a Device/Lasers(Set) message
HandlesLasersSet ==
    /\ nmsgs' = nmsgs + 1
    /\ msg'.json
    /\ msg'.m_type = "device" /\ msg'.device = "lasers" /\ msg'.command = "set"

\* C25: each state-changing command changes only the fields it names:
\* SetFresnel leaves pattern selection and wavelength unchanged, SetPattern
\* leaves fresnel and wavelength unchanged, Set and PreStack leave
\* wavelength unchanged, Lasers(Set) leaves pattern selection and fresnel
\* unchanged, and Get, GetAllPatterns, UploadImage, DeleteImage,
\* SetCorrectionPatternDeltas and the unhandled Aim commands leave all three
\* unchanged.
C25_CommandsChangeOnlyTheirFields ==
    [][/\ HandlesAim("setfresnel") => UNCHANGED <<pattern_params, wavelength>>
       /\ HandlesAim("setpattern") => UNCHANGED <<fresnel, wavelength>>
       /\ (HandlesAim("set") \/ HandlesAim("PreStack")) => UNCHANGED wavelength
       /\ HandlesLasersSet => UNCHANGED <<pattern_params, fresnel>>
       /\ (\E command \in {"get", "getAllPatterns", "uploadimage", "deleteimage",
                           "setCorrectionPatternDeltas", "response", "disconnect",
                           "availablePatterns"} : HandlesAim(command))
             => UNCHANGED <<pattern_params, fresnel, wavelength>>]_vars

\* C25 witness: SetPattern has been handled after SetFresnel: the selection
\* is the new one and the fresnel power is still the one set before
C25_Witness ==
    /\ IsAim("setpattern") /\ result = "ok"
    /\ nmsgs = 2
    /\ pattern_params = msg.arg.pattern
    /\ pattern_params.kind = "base"
    /\ fresnel = 7
    /\ wavelength = config.defaults.wavelength

\* the pattern that compute produces from the current DeviceState and cache
Computed ==
    compute_pattern(Context([pub_fail |-> 0, io_ok |-> TRUE, write_ok |-> TRUE,
                             walk |-> 0, sub_fail |-> 0]))

\* C26: after every successfully processed inbound message the pattern most
\* recently presented equals the pattern that compute produces from the
\* current DeviceState and the current cache contents; in particular a
\* successful SetCorrectionPatternDeltas for the current wavelength, with
\* flatness correction enabled, is reflected in the presented pattern.
C26_PresentedIsComputed ==
    (Handled /\ msg.json /\ result = "ok") =>
        Ok(Computed) /\ pixels = Computed.ret

\* what the next flatness resolution and cache load return for wavelength w
NextCorrection(w) ==
    load_resolved(
        get_file_path_for_flatness_corr_pattern(
            Context([pub_fail |-> 0, io_ok |-> TRUE, write_ok |-> TRUE,
                     walk |-> 0, sub_fail |-> 0]), w),
        None)

\* C27: correction deltas accumulate: every successfully processed
\* SetCorrectionPatternDeltas{w, d} makes the array that the next flatness
\* resolution and cache load return for w the one they returned before plus
\* d; so after two such messages with d1 then d2 it is the array first
\* loaded for w plus d1 plus d2, also when the only file for w at the start
\* was the factory variant.
C27_DeltasAccumulate ==
    [][(MergeStep /\ result' = "ok") =>
          \A w \in Wavelengths :
              msg'.arg.wavelength = w =>
                  /\ Ok(NextCorrection(w)')
                  /\ NextCorrection(w)'.ret
                        = ElementwiseSum(NextCorrection(w).ret,
                                         msg'.arg.imagedata.values)]_vars

\* C27 witness: two merges of the same delta for 561, of which only the
\* factory file [0, 255] existed at the start: the next load returns the
\* file's array plus twice the delta
C27_Witness ==
    /\ IsAim("setCorrectionPatternDeltas") /\ result = "ok"
    /\ nmsgs = 2
    /\ msg.arg.wavelength = 561
    /\ msg.arg.imagedata.values = <<510, -255>>
    /\ Len(client) = 1
    /\ Ok(NextCorrection(561))
    /\ NextCorrection(561).ret.data = <<0 + 510 + 510, 255 * 255 - 255 - 255>>

\* the step polls a window event
PollsEvent == Len(window_events') < Len(window_events)

\* the channel holds a message for the next try_recv
MessagePending == message_channel # <<>> /\ Head(message_channel) # None

\* the channel holds a message, at its head or behind other items
MessageQueued == \E k \in 1..Len(message_channel) : message_channel[k] # None

\* C28 as stated: messages have strict priority over window events: a window
\* event is polled, and a quit signal acted on, only when the channel holds
\* no message (the queue has been observed empty).
C28_QueueEmptyBeforeWindowEvents ==
    [][/\ PollsEvent => ~MessageQueued
       /\ (pc' = "quit" /\ pc # "quit") => ~MessageQueued]_vars

\* C28: inbound messages are handled one at a time, each to completion; a
\* window event, Quit and Escape included, is polled only in a loop
\* iteration whose try_recv yielded no message: the channel was empty, or
\* its head was the item None, which that iteration takes from the channel.
\* So the loop ends only after such a check, possibly with messages still
\* queued behind a None item; after it has ended no further message is
\* processed.
C28_MessagesBeforeWindowEvents ==
    [][/\ nmsgs' # nmsgs =>
             /\ nmsgs' = nmsgs + 1
             /\ MessagePending
             /\ msg' = Head(message_channel)[1]
             /\ message_channel' = Tail(message_channel)
             /\ window_events' = window_events
       /\ PollsEvent => (~MessagePending /\ nmsgs' = nmsgs)
       /\ (pc' = "quit" /\ pc # "quit") =>
             (~MessagePending /\ PollsEvent /\ ends_loop(Head(window_events)))
       /\ pc = "quit" =>
             /\ pc' = "quit"
             /\ UNCHANGED <<wavelength, fresnel, pattern_params, cache, fs, client,
                            pixels, reboot, msg, result, ret, nmsgs, window_events>>]_vars

\* C28 witness: the loop has ended on a quit signal after the message that
\* arrived before it was handled, and a message that arrived afterwards
\* stays in the channel
C28_Witness ==
    /\ pc = "quit"
    /\ nmsgs = 1
    /\ IsAim("setfresnel") /\ fresnel = 7
    /\ message_channel # <<>>
    /\ window_events # <<>>

====
